---- MODULE Spec2Model ----
(***************************************************************************)
(* Staff directory back end: accounts, login lockout, role-scoped user     *)
(* management and the activity listing.  The document store is the `users` *)
(* and `activities` collections; every request handler is an action (or a  *)
(* chain of actions split at its awaits where the interleaving of two      *)
(* requests is what a property is about).                                  *)
(***************************************************************************)
EXTENDS Integers, Sequences, FiniteSets, TLC

VARIABLES
    users,        \* the User collection: _id -> document (st = "free" | "live" | "gone")
    activities,   \* the DailyActivity collection: a sequence of documents
    departments,  \* the Department collection: _id -> document
    reqs,         \* requests the server is in the middle of (one per client slot)
    last,         \* the response the server sent most recently, with its request
    served,       \* how many responses have been sent
    checks,       \* per user, history: failed credential checks completed since the
                  \* last successful check or unlock (sinceSuccess), and since the
                  \* last of those or a password reset / change (sinceReset)
    now,          \* Date.now()
    inflightLimit,\* how many requests the server processes at the same time
    budget        \* how many requests the run is given

vars == <<users, activities, departments, reqs, last, served, checks, now, inflightLimit, budget>>

-----------------------------------------------------------------------------
(* Bounds of the model *)

MaxUsers == 5
MaxClients == 2
MaxRequests == 4
MaxDirectoryRequests == 3

\* null / undefined of a Date, Number or ObjectId path, and of a String path
Null == 0
None == ""

UserIds == 1..MaxUsers
Clients == 1..MaxClients

-----------------------------------------------------------------------------
(* Value domains *)

SUPER_ADMIN == "SUPER_ADMIN"
LINE_MANAGER == "LINE_MANAGER"
STAFF == "STAFF"
Roles == {STAFF, LINE_MANAGER, SUPER_ADMIN}

AUTO_LOCK_REASON == "3 consecutive failed login attempts"
MANUAL_LOCK_REASON == "Manually locked by administrator"

\* employee codes as character sequences, so that the format test is a real test
Card(n) == <<"K", "E", "0", "0", n>>
Digits == {"0", "1", "2", "3", "4", "5", "6", "7", "8", "9"}
BadCard == <<"K", "E", "1", "7">>
\* /^KE\d{3}$/
IdCardFormat(c) ==
    /\ Len(c) = 5
    /\ c[1] = "K" /\ c[2] = "E"
    /\ \A i \in 3..5 : c[i] \in Digits

CardOf(u) == Card(CASE u = 1 -> "1" [] u = 2 -> "2" [] u = 3 -> "3"
                    [] u = 4 -> "4" [] u = 5 -> "5" [] u = 6 -> "6" [] u = 7 -> "7"
                    [] OTHER -> "9")
EmailOf(u) == <<"mail", u>>

Passwords == {"secret", "hunter2"}
ShortPassword == "abc"
PasswordLength(p) == CASE p = "secret" -> 6 [] p = "hunter2" -> 7 [] p = "abc" -> 3 [] OTHER -> 0
\* bcrypt.hash / bcrypt.compare
Hash(p) == <<"bcrypt", p>>
Compare(p, digest) == digest = Hash(p)

Departments == {"d1", "d2"}
\* the Department document: name, code, description, isActive.  The schema has
\* no lineManager path, so a lineManager sent with a department update is not
\* stored; sentLineManager remembers what the last accepted update sent.
BlankDepartment == [st |-> "live", isActive |-> TRUE, sentLineManager |-> Null]

validBranches == [Lagos |-> {"Alimosho", "HQ"}, Delta |-> {"Warri"}, Osun |-> {"Osun"}]
validRegions == {"Lagos", "Delta", "Osun"}

-----------------------------------------------------------------------------
(* The User document *)

BlankUser ==
    [st |-> "free", id_card |-> <<>>, email |-> <<>>, password |-> <<>>,
     role |-> STAFF, reportsTo |-> Null, department |-> None,
     region |-> "Lagos", branch |-> "HQ", position |-> "p0",
     is_active |-> TRUE, isAdmin |-> FALSE,
     isVerified |-> FALSE, otp |-> <<>>, otpExpiresAt |-> Null,
     loginAttempts |-> 0, isLocked |-> FALSE, lockedAt |-> Null,
     lockedReason |-> None, lastFailedLoginAt |-> Null,
     lastCheckinAt |-> Null, lastCheckinRegion |-> None, lastCheckinBranch |-> None,
     resetPasswordToken |-> <<>>, resetPasswordExpiresAt |-> Null]

GoneUser == [BlankUser EXCEPT !.st = "gone"]

Live(us, u) == u \in DOMAIN us /\ us[u].st = "live"
LiveUsers(us) == {u \in DOMAIN us : us[u].st = "live"}

\* User.findOne({ id_card })
findByCard(us, card) ==
    IF \E u \in LiveUsers(us) : us[u].id_card = card
    THEN CHOOSE u \in LiveUsers(us) : us[u].id_card = card
    ELSE Null

\* User.findOne({ email })
findByEmail(us, email) ==
    IF \E u \in LiveUsers(us) : us[u].email = email
    THEN CHOOSE u \in LiveUsers(us) : us[u].email = email
    ELSE Null

\* User.findById(id)
findById(us, id) == IF Live(us, id) THEN id ELSE Null

\* the document made by scripts/seed.js and by registerUser
NewUser(u, card, email, pw, role, mgr, dept, verified) ==
    [BlankUser EXCEPT !.st = "live", !.id_card = card, !.email = email,
                      !.password = Hash(pw), !.role = role, !.reportsTo = mgr,
                      !.department = dept,
                      !.isAdmin = (role \in {SUPER_ADMIN, LINE_MANAGER}),
                      !.isVerified = verified]

-----------------------------------------------------------------------------
(* Mongoose document.save(): only the paths whose value was changed since   *)
(* the document was loaded are written ($set); the schema sets              *)
(* versionKey: false, so a save never fails on a concurrent write.  A save  *)
(* of a document that was deleted meanwhile throws.                         *)

Modified(loaded, edited) == {f \in DOMAIN edited : edited[f] # loaded[f]}

\* a save() that writes the whole in-memory document
save_wholeDocument(us, u, loaded, edited) == [us EXCEPT ![u] = edited]

save(us, u, loaded, edited) ==
    [us EXCEPT ![u] = [f \in DOMAIN us[u] |->
        IF f \in Modified(loaded, edited) THEN edited[f] ELSE us[u][f]]]

-----------------------------------------------------------------------------
(* Requests and responses *)

\* the query string of the activity listing; Null / None = parameter not sent
NoQuery == [user |-> Null, date |-> Null, status |-> None, region |-> None, branch |-> None,
            page |-> 1, limit |-> 20]
Idle == [pc |-> "idle", card |-> <<>>, password |-> None, user |-> Null,
         doc |-> BlankUser, found |-> Null, fresh |-> BlankUser, ids |-> {}, query |-> NoQuery,
         rows |-> <<>>]
NoResponse == [op |-> "none", actor |-> Null, user |-> Null, status |-> 0, body |-> [locked |-> FALSE]]

InFlight == {c \in Clients : reqs[c].pc # "idle"}
\* a new request is taken up while the server has capacity and the run has budget
CanStart == Cardinality(InFlight) < inflightLimit /\ served + Cardinality(InFlight) < budget

Respond(r) ==
    /\ last' = r
    /\ served' = served + 1

\* history of credential checks
MaxAttempts == 3
Bump(n) == IF n < MaxAttempts THEN n + 1 ELSE n
CheckFailed(u) ==
    [checks EXCEPT ![u] = [sinceSuccess |-> Bump(@.sinceSuccess), sinceReset |-> Bump(@.sinceReset)]]
CheckReset(u) == [checks EXCEPT ![u] = [sinceSuccess |-> 0, sinceReset |-> 0]]
CounterReset(u) == [checks EXCEPT ![u].sinceReset = 0]

-----------------------------------------------------------------------------
(* models/staff.js statics, split at their awaits *)

\* a failedLogin that locks but keeps the counter
failedLoginEdit_keepsCounter(doc) ==
    LET n == doc.loginAttempts + 1 IN
    IF n >= MaxAttempts
    THEN [doc EXCEPT !.loginAttempts = n, !.lastFailedLoginAt = now,
                     !.isLocked = TRUE, !.lockedAt = now,
                     !.lockedReason = AUTO_LOCK_REASON]
    ELSE [doc EXCEPT !.loginAttempts = n, !.lastFailedLoginAt = now]

\* failedLogin, after its findOne: the in-memory document before save()
failedLoginEdit(doc) ==
    LET n == doc.loginAttempts + 1 IN
    IF n >= MaxAttempts
    THEN [doc EXCEPT !.loginAttempts = 0, !.lastFailedLoginAt = now,
                     !.isLocked = TRUE, !.lockedAt = now,
                     !.lockedReason = AUTO_LOCK_REASON]
    ELSE [doc EXCEPT !.loginAttempts = n, !.lastFailedLoginAt = now]

\* a successfulLogin that resets the counter of verified accounts only
successfulLoginEdit_verifiedOnly(doc) ==
    IF ~doc.isLocked /\ doc.isVerified
    THEN [doc EXCEPT !.loginAttempts = 0, !.lastFailedLoginAt = Null]
    ELSE doc
\* successfulLogin, after its findOne
successfulLoginEdit(doc) ==
    IF ~doc.isLocked
    THEN [doc EXCEPT !.loginAttempts = 0, !.lastFailedLoginAt = Null]
    ELSE doc

-----------------------------------------------------------------------------
(* controllers/authController.js: getNotificationRecipients *)

\* .populate('reportsTo'): the referenced document, or null when it is gone
populate(us, ref) == IF ref # Null /\ Live(us, ref) THEN ref ELSE Null

\* User.find({ role: 'SUPER_ADMIN', is_active: true }).limit(5), in the order
\* of the store
NotifyLimit == 5
superAdmins(us) ==
    LET all == {u \in LiveUsers(us) : us[u].role = SUPER_ADMIN /\ us[u].is_active} IN
    {u \in all : Cardinality({v \in all : v < u}) < NotifyLimit}

\* superAdmins.forEach(admin => { if (!exists) recipients.push(...) })
RECURSIVE pushAdmins(_, _, _)
pushAdmins(us, recipients, admins) ==
    IF admins = {} THEN recipients
    ELSE LET admin == CHOOSE u \in admins : \A v \in admins : u <= v
             exists == \E i \in 1..Len(recipients) : recipients[i] = us[admin].email IN
         pushAdmins(us, IF exists THEN recipients ELSE Append(recipients, us[admin].email),
                    admins \ {admin})

\* a recipient list that pushes every SUPER_ADMIN without looking for its address
getNotificationRecipients_pushAll(us, t) ==
    LET mgr == populate(us, us[t].reportsTo)
        manager == IF us[t].role = STAFF /\ mgr # Null THEN <<us[mgr].email>> ELSE <<>>
        admins == superAdmins(us) IN
    manager \o [i \in 1..Cardinality(admins) |->
                   us[CHOOSE u \in admins : Cardinality({v \in admins : v < u}) = i - 1].email]
\* getNotificationRecipients(lockedUser): the addresses of the manager of a
\* STAFF member, then of up to NotifyLimit active SUPER_ADMINs not yet listed
getNotificationRecipients(us, t) ==
    LET mgr == populate(us, us[t].reportsTo)
        manager == IF us[t].role = STAFF /\ mgr # Null THEN <<us[mgr].email>> ELSE <<>> IN
    pushAdmins(us, manager, superAdmins(us))

-----------------------------------------------------------------------------
(* controllers/authController.js: loginUser *)

LoginCards == {CardOf(u) : u \in UserIds} \cup {BadCard}
\* utils/otp generateOTP(): six digits
Code(d) == <<d, d, d, d, d, d>>
OtpCodes == {Code("1"), Code("2")}
BadCode == <<"1", "2", "3">>
\* lifetimes in minutes: an OTP, a password-reset token
OtpTtl == 10
ResetTtl == 15
\* /^\d{6}$/
CodeFormat(t) == Len(t) = 6 /\ \A i \in 1..6 : t[i] \in Digits

LoginResponse(c, card, pw, u, status, body) ==
    [op |-> "loginUser", actor |-> Null, user |-> u, status |-> status, body |-> body]

\* a loginUser without the locked gate
loginUser_ungated(c, card, pw) ==
    /\ reqs[c].pc = "idle"
    /\ CanStart
    /\ LET u == findByCard(users, card) IN
       IF ~IdCardFormat(card) \/ u = Null
       THEN /\ Respond(LoginResponse(c, card, pw, Null, 401, [locked |-> FALSE]))
            /\ UNCHANGED reqs
       ELSE /\ reqs' = [reqs EXCEPT ![c] =
                   [Idle EXCEPT !.pc = IF Compare(pw, users[u].password)
                                       THEN "successfulLogin" ELSE "failedLogin",
                                !.card = card, !.password = pw, !.user = u,
                                !.doc = users[u]]]
            /\ last' = NoResponse
            /\ UNCHANGED served
    /\ UNCHANGED <<users, activities, departments, checks, now, inflightLimit, budget>>

\* the handler up to bcrypt.compare: validation, lookup, the locked gate
loginUser(c, card, pw) ==
    /\ reqs[c].pc = "idle"
    /\ CanStart
    /\ LET u == findByCard(users, card) IN
       IF ~IdCardFormat(card)
       THEN /\ Respond(LoginResponse(c, card, pw, Null, 400, [locked |-> FALSE]))
            /\ UNCHANGED reqs
       ELSE IF u = Null
       THEN /\ Respond(LoginResponse(c, card, pw, Null, 401, [locked |-> FALSE]))
            /\ UNCHANGED reqs
       ELSE IF users[u].isLocked
       THEN /\ Respond(LoginResponse(c, card, pw, u, 423,
                                     [locked |-> TRUE, lockedReason |-> users[u].lockedReason]))
            /\ UNCHANGED reqs
       ELSE /\ reqs' = [reqs EXCEPT ![c] =
                   [Idle EXCEPT !.pc = IF Compare(pw, users[u].password)
                                       THEN "successfulLogin" ELSE "failedLogin",
                                !.card = card, !.password = pw, !.user = u,
                                !.doc = users[u]]]
            /\ last' = NoResponse
            /\ UNCHANGED served
    /\ UNCHANGED <<users, activities, departments, checks, now, inflightLimit, budget>>

\* User.failedLogin: findOne, the locked gate, the in-memory increment
failedLogin_find(c) ==
    /\ reqs[c].pc = "failedLogin"
    /\ LET r == reqs[c]
           u == findByCard(users, r.card) IN
       IF u = Null
       THEN \* returns undefined; the controller goes on to read the counter
            /\ reqs' = [reqs EXCEPT ![c].pc = "attemptsRemaining"]
            /\ UNCHANGED <<last, served, checks>>
       ELSE IF users[u].isLocked
       THEN \* returns the locked user: the controller answers 423
            /\ reqs' = [reqs EXCEPT ![c] = Idle]
            /\ checks' = CheckFailed(u)
            /\ Respond(LoginResponse(c, r.card, r.password, u, 423,
                                     [locked |-> TRUE, lockedReason |-> users[u].lockedReason,
                                      notified |-> getNotificationRecipients(users, u)]))
       ELSE /\ reqs' = [reqs EXCEPT ![c].pc = "failedLogin_save", ![c].user = u,
                                    ![c].doc = users[u]]
            /\ UNCHANGED <<last, served, checks>>
    /\ UNCHANGED <<users, activities, departments, now, inflightLimit, budget>>

\* User.failedLogin: user.save()
failedLogin_save(c) ==
    /\ reqs[c].pc = "failedLogin_save"
    /\ LET r == reqs[c]
           edited == failedLoginEdit(r.doc) IN
       IF ~Live(users, r.user)
       THEN \* save() throws: the controller's catch answers 500
            /\ reqs' = [reqs EXCEPT ![c] = Idle]
            /\ Respond(LoginResponse(c, r.card, r.password, r.user, 500, [locked |-> FALSE]))
            /\ UNCHANGED <<users, checks>>
       ELSE /\ users' = save(users, r.user, r.doc, edited)
            /\ checks' = CheckFailed(r.user)
            /\ reqs' = [reqs EXCEPT ![c].pc =
                          IF edited.isLocked THEN "failedLogin_refetch" ELSE "attemptsRemaining"]
            /\ UNCHANGED <<last, served>>
    /\ UNCHANGED <<activities, departments, now, inflightLimit, budget>>

\* User.failedLogin returns this.findOne(...) after locking; the controller answers 423
failedLogin_refetch(c) ==
    /\ reqs[c].pc = "failedLogin_refetch"
    /\ LET r == reqs[c]
           u == findByCard(users, r.card) IN
       IF u = Null
       THEN /\ reqs' = [reqs EXCEPT ![c].pc = "attemptsRemaining"]
            /\ UNCHANGED <<last, served>>
       ELSE /\ reqs' = [reqs EXCEPT ![c] = Idle]
            /\ Respond(LoginResponse(c, r.card, r.password, u, 423,
                                     [locked |-> TRUE, lockedReason |-> users[u].lockedReason,
                                      notified |-> getNotificationRecipients(users, u)]))
    /\ UNCHANGED <<users, activities, departments, checks, now, inflightLimit, budget>>

\* the controller reads the counter again for the 401 body
loginUser_attemptsRemaining(c) ==
    /\ reqs[c].pc = "attemptsRemaining"
    /\ LET r == reqs[c]
           u == findByCard(users, r.card) IN
       /\ reqs' = [reqs EXCEPT ![c] = Idle]
       /\ IF u = Null
          THEN \* updatedUser is null: TypeError, caught, 500
               Respond(LoginResponse(c, r.card, r.password, r.user, 500, [locked |-> FALSE]))
          ELSE Respond(LoginResponse(c, r.card, r.password, u, 401,
                           [locked |-> FALSE,
                            attemptsRemaining |-> MaxAttempts - users[u].loginAttempts]))
    /\ UNCHANGED <<users, activities, departments, checks, now, inflightLimit, budget>>

\* User.successfulLogin: findOne
successfulLogin_find(c) ==
    /\ reqs[c].pc = "successfulLogin"
    /\ LET r == reqs[c]
           u == findByCard(users, r.card) IN
       IF u = Null \/ users[u].isLocked
       THEN /\ reqs' = [reqs EXCEPT ![c].pc = "checkin"]
       ELSE /\ reqs' = [reqs EXCEPT ![c].pc = "successfulLogin_save",
                                    ![c].found = u, ![c].fresh = users[u]]
    /\ UNCHANGED <<users, activities, departments, last, served, checks, now, inflightLimit, budget>>

\* User.successfulLogin: user.save()
successfulLogin_save(c) ==
    /\ reqs[c].pc = "successfulLogin_save"
    /\ LET r == reqs[c] IN
       IF ~Live(users, r.found)
       THEN /\ reqs' = [reqs EXCEPT ![c] = Idle]
            /\ Respond(LoginResponse(c, r.card, r.password, r.user, 500, [locked |-> FALSE]))
            /\ UNCHANGED <<users, checks>>
       ELSE /\ users' = save(users, r.found, r.fresh, successfulLoginEdit(r.fresh))
            /\ checks' = CheckReset(r.found)
            /\ reqs' = [reqs EXCEPT ![c].pc = "checkin", ![c].found = Null,
                                    ![c].fresh = BlankUser]
            /\ UNCHANGED <<last, served>>
    /\ UNCHANGED <<activities, departments, now, inflightLimit, budget>>

\* the controller stamps the check-in on the document it loaded first and saves it
loginUser_checkin(c) ==
    /\ reqs[c].pc = "checkin"
    /\ LET r == reqs[c]
           edited == [r.doc EXCEPT !.lastCheckinAt = now,
                                   !.lastCheckinRegion = r.doc.region,
                                   !.lastCheckinBranch = r.doc.branch] IN
       IF ~Live(users, r.user)
       THEN /\ reqs' = [reqs EXCEPT ![c] = Idle]
            /\ Respond(LoginResponse(c, r.card, r.password, r.user, 500, [locked |-> FALSE]))
            /\ UNCHANGED users
       ELSE /\ users' = save(users, r.user, r.doc, edited)
            /\ IF ~r.doc.isVerified
               THEN /\ reqs' = [reqs EXCEPT ![c].pc = "sendOtp", ![c].doc = edited]
                    /\ UNCHANGED <<last, served>>
               ELSE /\ reqs' = [reqs EXCEPT ![c] = Idle]
                    /\ Respond(LoginResponse(c, r.card, r.password, r.user, 200,
                                   [locked |-> FALSE, token |-> r.user]))
    /\ UNCHANGED <<activities, departments, checks, now, inflightLimit, budget>>

\* an unverified account gets a fresh OTP instead of a token
loginUser_sendOtp(c) ==
    /\ reqs[c].pc = "sendOtp"
    /\ \E otp \in OtpCodes :
         LET r == reqs[c]
             edited == [r.doc EXCEPT !.otp = otp, !.otpExpiresAt = now + OtpTtl] IN
         /\ reqs' = [reqs EXCEPT ![c] = Idle]
         /\ IF ~Live(users, r.user)
            THEN /\ Respond(LoginResponse(c, r.card, r.password, r.user, 500, [locked |-> FALSE]))
                 /\ UNCHANGED users
            ELSE /\ users' = save(users, r.user, r.doc, edited)
                 /\ Respond(LoginResponse(c, r.card, r.password, r.user, 403,
                                [locked |-> FALSE, requiresVerification |-> TRUE]))
    /\ UNCHANGED <<activities, departments, checks, now, inflightLimit, budget>>

-----------------------------------------------------------------------------
(* middleware/auth.middleware.js and middleware/role.middleware.js *)

\* the bearer of a token for user a passes when a still exists and is active
authMiddleware(a) == Live(users, a) /\ users[a].is_active
checkRoles(a, requiredRoles) == users[a].role \in requiredRoles
lineManagerOrSuperAdmin(a) == checkRoles(a, {LINE_MANAGER, SUPER_ADMIN})
isSuperAdmin(a) == checkRoles(a, {SUPER_ADMIN})


\* String(x) of an id (req.user.id, ObjectId.toString()) and of a populated
\* document (Document.toString() is its inspect() text, never its id)
IdString(u) == <<"id", u>>
RefString(ref, populated) == IF populated THEN <<"document", ref>> ELSE <<"id", ref>>

\* canAdminManageUser(adminUser, targetUser); reportsTo is targetUser.reportsTo as
\* the caller loaded it (an id, a populated document, or null)
canAdminManageUser(a, adminUser, targetUser, reportsTo, populated) ==
    IF adminUser.role = SUPER_ADMIN THEN TRUE
    ELSE IF adminUser.role = LINE_MANAGER
    THEN /\ targetUser.role = STAFF
         /\ reportsTo # Null
         /\ RefString(reportsTo, populated) = IdString(a)
    ELSE FALSE

-----------------------------------------------------------------------------
(* models/staff.js: unlockAccount and lockAccount *)

\* the error User.unlockAccount throws, or "ok"
User_unlockAccount(us, card, adminCard) ==
    LET t == findByCard(us, card)
        a == findByCard(us, adminCard)
        reportsTo == IF t = Null THEN Null ELSE populate(us, us[t].reportsTo) IN
    IF t = Null THEN "User not found"
    ELSE IF ~us[t].isLocked THEN "Account is not locked"
    ELSE IF a = Null THEN "Admin user not found"
    ELSE IF us[t].role = STAFF
    THEN IF \/ us[a].role = SUPER_ADMIN
            \/ (us[a].role = LINE_MANAGER /\ reportsTo # Null /\ reportsTo = a)
         THEN "ok" ELSE "Unauthorized"
    ELSE IF us[a].role # SUPER_ADMIN THEN "Unauthorized" ELSE "ok"

\* an unlock that leaves the failed-login counter and its date as they were
unlockEdit_keepsCounter(doc) ==
    [doc EXCEPT !.isLocked = FALSE, !.lockedAt = Null, !.lockedReason = None]
unlockEdit(doc) ==
    [doc EXCEPT !.isLocked = FALSE, !.lockedAt = Null, !.lockedReason = None,
                !.loginAttempts = 0, !.lastFailedLoginAt = Null]

\* the error User.lockAccount throws, or "ok"
User_lockAccount(us, card, adminCard) ==
    LET t == findByCard(us, card)
        a == findByCard(us, adminCard) IN
    IF t = Null THEN "User not found"
    ELSE IF us[t].isLocked THEN "Account is already locked"
    ELSE IF a = Null THEN "Admin user not found"
    ELSE IF a = t THEN "Cannot lock your own account"
    ELSE IF us[t].role = SUPER_ADMIN /\ us[a].role # SUPER_ADMIN
    THEN "Only SUPER_ADMIN can lock other SUPER_ADMIN accounts"
    ELSE "ok"

\* lockedBy is not a path of the schema and is not stored
lockEdit(doc, reason) ==
    [doc EXCEPT !.isLocked = TRUE, !.lockedAt = now, !.lockedReason = reason,
                !.loginAttempts = 0, !.lastFailedLoginAt = Null]

-----------------------------------------------------------------------------
(* controllers/authController.js: unlockAccount and lockAccount *)

AdminResponse(op, a, card, t, status) ==
    [op |-> op, actor |-> a, user |-> t, status |-> status, body |-> [locked |-> FALSE]]

\* the status the request ends with before any notification is sent; 0 = none yet
unlockAccountGate(a, card) ==
    LET t == findByCard(users, card) IN
    IF ~authMiddleware(a) THEN 401
    ELSE IF ~lineManagerOrSuperAdmin(a) THEN 403
    ELSE IF ~users[a].isAdmin THEN 403
    ELSE IF t = Null THEN 404
    ELSE IF ~canAdminManageUser(a, users[a], users[t], users[t].reportsTo, FALSE)
            /\ users[a].role # SUPER_ADMIN THEN 403
    ELSE LET thrown == User_unlockAccount(users, card, users[a].id_card) IN
         CASE thrown = "ok" -> 0
           [] thrown = "User not found" -> 404
           [] thrown = "Account is not locked" -> 400
           [] thrown = "Unauthorized" -> 403
           [] OTHER -> 500

\* mail: whether the mail transport accepts the notification
unlockAccount(a, card, mail) ==
    /\ CanStart
    /\ LET t == findByCard(users, card)
           gate == unlockAccountGate(a, card) IN
       IF gate # 0
       THEN /\ Respond(AdminResponse("unlockAccount", a, card, t, gate))
            /\ UNCHANGED <<users, checks>>
       ELSE /\ users' = save(users, t, users[t], unlockEdit(users[t]))
            /\ checks' = CheckReset(t)
            \* sendAccountUnlockedNotification rethrows a transport error
            /\ Respond(AdminResponse("unlockAccount", a, card, t, IF mail THEN 200 ELSE 500))
    /\ UNCHANGED <<activities, departments, reqs, now, inflightLimit, budget>>

LockReasons == {None, "policy"}

\* a lock handler that authenticates the actor and finds the target, no more
lockAccountGate_unchecked(a, card) ==
    IF ~authMiddleware(a) THEN 401
    ELSE IF findByCard(users, card) = Null THEN 404
    ELSE 0
lockAccountGate(a, card) ==
    LET t == findByCard(users, card) IN
    IF ~authMiddleware(a) THEN 401
    ELSE IF ~lineManagerOrSuperAdmin(a) THEN 403
    ELSE IF ~users[a].isAdmin THEN 403
    ELSE IF t = Null THEN 404
    ELSE IF t = a THEN 400
    ELSE IF users[t].role = SUPER_ADMIN /\ users[a].role # SUPER_ADMIN THEN 403
    ELSE IF ~canAdminManageUser(a, users[a], users[t], populate(users, users[t].reportsTo), TRUE)
            /\ users[a].role # SUPER_ADMIN THEN 403
    ELSE LET thrown == User_lockAccount(users, card, users[a].id_card) IN
         CASE thrown = "ok" -> 0
           [] thrown = "User not found" -> 404
           [] thrown = "Account is already locked" -> 400
           [] OTHER -> 500

lockAccount(a, card, reason, mail) ==
    /\ CanStart
    /\ LET t == findByCard(users, card)
           gate == lockAccountGate(a, card) IN
       IF gate # 0
       THEN /\ Respond(AdminResponse("lockAccount", a, card, t, gate))
            /\ UNCHANGED <<users, checks>>
       ELSE /\ users' = save(users, t, users[t],
                             lockEdit(users[t], IF reason = None THEN MANUAL_LOCK_REASON ELSE reason))
            /\ UNCHANGED checks
            /\ LET notified == getNotificationRecipients(users', t) IN
               Respond([AdminResponse("lockAccount", a, card, t,
                                      IF mail \/ notified = <<>> THEN 200 ELSE 500)
                        EXCEPT !.body = [locked |-> FALSE, notified |-> notified]])
    /\ UNCHANGED <<activities, departments, reqs, now, inflightLimit, budget>>

-----------------------------------------------------------------------------
(* controllers/authController.js: OTP verification *)

AccountResponse(op, a, card, t, status) ==
    [op |-> op, actor |-> a, user |-> t, status |-> status, body |-> [locked |-> status = 423]]

SentCodes == OtpCodes \cup {BadCode}

\* a verifyOtp that accepts every well-formed code
verifyOtp_anyCode(card, otp) ==
    /\ CanStart
    /\ LET u == findByCard(users, card)
           status == IF u = Null THEN 404
                     ELSE IF users[u].isLocked THEN 423
                     ELSE IF users[u].isVerified THEN 400
                     ELSE IF ~CodeFormat(otp) THEN 400
                     ELSE 200 IN
       /\ users' = IF status = 200
                   THEN save(users, u, users[u],
                             [users[u] EXCEPT !.isVerified = TRUE, !.otp = <<>>,
                                              !.otpExpiresAt = Null])
                   ELSE users
       /\ Respond(AccountResponse("verifyOtp", Null, card, u, status))
    /\ UNCHANGED <<activities, departments, reqs, checks, now, inflightLimit, budget>>

verifyOtp(card, otp) ==
    /\ CanStart
    /\ LET u == findByCard(users, card)
           status == IF u = Null THEN 404
                     ELSE IF users[u].isLocked THEN 423
                     ELSE IF users[u].isVerified THEN 400
                     ELSE IF ~CodeFormat(otp) THEN 400
                     ELSE IF \/ users[u].otp # otp
                             \/ users[u].otpExpiresAt = Null
                             \/ users[u].otpExpiresAt < now THEN 400
                     ELSE 200 IN
       /\ users' = IF status = 200
                   THEN save(users, u, users[u],
                             [users[u] EXCEPT !.isVerified = TRUE, !.otp = <<>>,
                                              !.otpExpiresAt = Null])
                   ELSE users
       /\ Respond(AccountResponse("verifyOtp", Null, card, u, status))
    /\ UNCHANGED <<activities, departments, reqs, checks, now, inflightLimit, budget>>

resendOtp(card, otp) ==
    /\ CanStart
    /\ LET u == findByCard(users, card)
           status == IF u = Null THEN 404
                     ELSE IF users[u].isLocked THEN 423
                     ELSE IF users[u].isVerified THEN 400
                     ELSE 200 IN
       /\ users' = IF status = 200
                   THEN save(users, u, users[u],
                             [users[u] EXCEPT !.otp = otp, !.otpExpiresAt = now + OtpTtl])
                   ELSE users
       /\ Respond(AccountResponse("resendOtp", Null, card, u, status))
    /\ UNCHANGED <<activities, departments, reqs, checks, now, inflightLimit, budget>>

-----------------------------------------------------------------------------
(* controllers/authController.js: password reset and password change *)

\* a reset token is usable when it is the stored one and has not expired
resetTokenValid(doc, token) ==
    /\ doc.resetPasswordToken # <<>>
    /\ doc.resetPasswordToken = token
    /\ doc.resetPasswordExpiresAt # Null
    /\ ~(doc.resetPasswordExpiresAt < now)

\* the account is named by id_card, or by email when no id_card is sent
requestPasswordReset(card, email, token) ==
    /\ CanStart
    /\ LET u == IF card # <<>> THEN findByCard(users, card) ELSE findByEmail(users, email)
           status == IF card = <<>> /\ email = <<>> THEN 400
                     ELSE IF u = Null THEN 200
                     ELSE IF users[u].isLocked THEN 423
                     ELSE 200 IN
       /\ users' = IF status = 200 /\ u # Null
                   THEN save(users, u, users[u],
                             [users[u] EXCEPT !.resetPasswordToken = token,
                                              !.resetPasswordExpiresAt = now + ResetTtl])
                   ELSE users
       /\ Respond(AccountResponse("requestPasswordReset", Null, card, u, status))
    /\ UNCHANGED <<activities, departments, reqs, checks, now, inflightLimit, budget>>

verifyResetToken(card, token) ==
    /\ CanStart
    /\ LET u == findByCard(users, card)
           status == IF u = Null THEN 404
                     ELSE IF users[u].isLocked THEN 423
                     ELSE IF ~CodeFormat(token) THEN 400
                     ELSE IF ~resetTokenValid(users[u], token) THEN 400
                     ELSE 200 IN
       Respond(AccountResponse("verifyResetToken", Null, card, u, status))
    /\ UNCHANGED <<users, activities, departments, reqs, checks, now, inflightLimit, budget>>

NewPasswords == Passwords \cup {ShortPassword}

\* a resetPassword without the locked gate
resetPassword_ungated(card, token, newPassword) ==
    /\ CanStart
    /\ LET u == findByCard(users, card)
           status == IF PasswordLength(newPassword) < 6 THEN 400
                     ELSE IF u = Null THEN 404
                     ELSE IF ~CodeFormat(token) THEN 400
                     ELSE IF ~resetTokenValid(users[u], token) THEN 400
                     ELSE IF Compare(newPassword, users[u].password) THEN 400
                     ELSE 200 IN
       /\ IF status = 200
          THEN /\ users' = save(users, u, users[u],
                                [users[u] EXCEPT !.password = Hash(newPassword),
                                                 !.resetPasswordToken = <<>>,
                                                 !.resetPasswordExpiresAt = Null,
                                                 !.loginAttempts = 0,
                                                 !.lastFailedLoginAt = Null])
               /\ checks' = CounterReset(u)
          ELSE UNCHANGED <<users, checks>>
       /\ Respond(AccountResponse("resetPassword", Null, card, u, status))
    /\ UNCHANGED <<activities, departments, reqs, now, inflightLimit, budget>>

resetPassword(card, token, newPassword) ==
    /\ CanStart
    /\ LET u == findByCard(users, card)
           status == IF PasswordLength(newPassword) < 6 THEN 400
                     ELSE IF u = Null THEN 404
                     ELSE IF users[u].isLocked THEN 423
                     ELSE IF ~CodeFormat(token) THEN 400
                     ELSE IF ~resetTokenValid(users[u], token) THEN 400
                     ELSE IF Compare(newPassword, users[u].password) THEN 400
                     ELSE 200 IN
       /\ IF status = 200
          THEN /\ users' = save(users, u, users[u],
                                [users[u] EXCEPT !.password = Hash(newPassword),
                                                 !.resetPasswordToken = <<>>,
                                                 !.resetPasswordExpiresAt = Null,
                                                 !.loginAttempts = 0,
                                                 !.lastFailedLoginAt = Null])
               /\ checks' = CounterReset(u)
          ELSE UNCHANGED <<users, checks>>
       /\ Respond(AccountResponse("resetPassword", Null, card, u, status))
    /\ UNCHANGED <<activities, departments, reqs, now, inflightLimit, budget>>

\* resetPassword up to the checks on the document User.findOne returned; the
\* handler then awaits bcrypt.hash before it saves
resetPassword_find(c, card, token, newPassword) ==
    /\ reqs[c].pc = "idle"
    /\ CanStart
    /\ LET u == findByCard(users, card)
           status == IF PasswordLength(newPassword) < 6 THEN 400
                     ELSE IF u = Null THEN 404
                     ELSE IF users[u].isLocked THEN 423
                     ELSE IF ~CodeFormat(token) THEN 400
                     ELSE IF ~resetTokenValid(users[u], token) THEN 400
                     ELSE IF Compare(newPassword, users[u].password) THEN 400
                     ELSE 0 IN
       IF status # 0
       THEN /\ Respond(AccountResponse("resetPassword", Null, card, u, status))
            /\ UNCHANGED reqs
       ELSE /\ reqs' = [reqs EXCEPT ![c] =
                   [Idle EXCEPT !.pc = "resetPassword_save", !.card = card,
                                !.password = newPassword, !.user = u, !.doc = users[u]]]
            /\ UNCHANGED <<last, served>>
    /\ UNCHANGED <<users, activities, departments, checks, now, inflightLimit, budget>>

\* resetPassword: the assignments to the loaded document and user.save()
resetPassword_save(c) ==
    /\ reqs[c].pc = "resetPassword_save"
    /\ LET r == reqs[c] IN
       IF ~Live(users, r.user)
       THEN /\ Respond(AccountResponse("resetPassword", Null, r.card, r.user, 500))
            /\ UNCHANGED <<users, checks>>
       ELSE /\ users' = save(users, r.user, r.doc,
                             [r.doc EXCEPT !.password = Hash(r.password),
                                           !.resetPasswordToken = <<>>,
                                           !.resetPasswordExpiresAt = Null,
                                           !.loginAttempts = 0,
                                           !.lastFailedLoginAt = Null])
            /\ checks' = CounterReset(r.user)
            /\ Respond(AccountResponse("resetPassword", Null, r.card, r.user, 200))
    /\ reqs' = [reqs EXCEPT ![c] = Idle]
    /\ UNCHANGED <<activities, departments, now, inflightLimit, budget>>

changePassword(a, currentPassword, newPassword) ==
    /\ CanStart
    /\ LET status == IF ~authMiddleware(a) THEN 401
                     ELSE IF PasswordLength(newPassword) < 6 THEN 400
                     ELSE IF users[a].isLocked THEN 423
                     ELSE IF ~Compare(currentPassword, users[a].password) THEN 401
                     ELSE IF Compare(newPassword, users[a].password) THEN 400
                     ELSE 200 IN
       /\ IF status = 200
          THEN /\ users' = save(users, a, users[a],
                                [users[a] EXCEPT !.password = Hash(newPassword),
                                                 !.loginAttempts = 0,
                                                 !.lastFailedLoginAt = Null])
               \* the current password was checked and matched
               /\ checks' = CheckReset(a)
          ELSE UNCHANGED <<users, checks>>
       /\ Respond(AccountResponse("changePassword", a, IF Live(users, a) THEN users[a].id_card ELSE <<>>,
                                  a, status))
    /\ UNCHANGED <<activities, departments, reqs, now, inflightLimit, budget>>

-----------------------------------------------------------------------------
(* controllers/userController.js: checkinUser *)

Places == {<<"Lagos", "HQ">>, <<"Delta", "Warri">>, <<"Lagos", "Warri">>, <<"Abuja", "HQ">>}

\* POST /checkin (t = a) and POST /:id/checkin (behind isAdmin)
checkinUser(a, t, region, branch) ==
    /\ CanStart
    /\ LET status == IF ~authMiddleware(a) THEN 401
                     ELSE IF t # a /\ ~checkRoles(a, {SUPER_ADMIN, LINE_MANAGER}) THEN 403
                     ELSE IF findById(users, t) = Null THEN 404
                     ELSE IF region \notin validRegions THEN 400
                     ELSE IF branch \notin validBranches[region] THEN 400
                     ELSE 200 IN
       /\ users' = IF status = 200
                   THEN save(users, t, users[t],
                             [users[t] EXCEPT !.lastCheckinAt = now,
                                              !.lastCheckinRegion = region,
                                              !.lastCheckinBranch = branch])
                   ELSE users
       /\ Respond(AccountResponse("checkinUser", a, <<>>, t, status))
    /\ UNCHANGED <<activities, departments, reqs, checks, now, inflightLimit, budget>>

\* time passes
TickMinutes == 10
MaxTime == 1440
Tick ==
    /\ now + TickMinutes <= MaxTime
    /\ now' = now + TickMinutes
    /\ UNCHANGED <<users, activities, departments, reqs, last, served, checks, inflightLimit, budget>>

-----------------------------------------------------------------------------
(* utils/roleUtils.js *)

\* a canUpdateUser that gives every actor the super_admin level on itself
canUpdateUser_selfIsSuperAdmin(a, t) ==
    IF findById(users, t) = Null THEN "denied"
    ELSE IF users[a].role = SUPER_ADMIN \/ a = t THEN "super_admin"
    ELSE IF users[a].role = LINE_MANAGER /\ users[t].reportsTo # Null /\ users[t].reportsTo = a
    THEN "manager"
    ELSE "denied"

\* a canUpdateUser that gives a LINE_MANAGER the manager level on every user
canUpdateUser_anyManager(a, t) ==
    IF findById(users, t) = Null THEN "denied"
    ELSE IF users[a].role = SUPER_ADMIN THEN "super_admin"
    ELSE IF a = t THEN "self"
    ELSE IF users[a].role = LINE_MANAGER THEN "manager"
    ELSE "denied"

\* canUpdateUser: the update level, or "denied"; SUPER_ADMIN is tested before self
canUpdateUser(a, t) ==
    IF findById(users, t) = Null THEN "denied"
    ELSE IF users[a].role = SUPER_ADMIN THEN "super_admin"
    ELSE IF a = t THEN "self"
    ELSE IF users[a].role = LINE_MANAGER /\ users[t].reportsTo # Null /\ users[t].reportsTo = a
    THEN "manager"
    ELSE "denied"

baseFields == {"email", "first_name", "last_name", "region", "branch"}

getAllowedUpdateFields(updateLevel) ==
    CASE updateLevel = "super_admin" ->
            baseFields \cup {"id_card", "is_active", "is_staff", "isAdmin", "department",
                             "position", "role", "reportsTo", "password"}
      [] updateLevel = "manager" -> baseFields \cup {"department", "position", "is_active"}
      [] updateLevel = "self" -> {"email", "first_name", "last_name", "password"}
      [] OTHER -> {}

\* canDeleteUser
canDeleteUser(a, t) == users[a].role = SUPER_ADMIN /\ a # t

-----------------------------------------------------------------------------
(* controllers/userController.js: updateUser *)

\* a request body: the keys it carries (keys) and the value of each
NoBody ==
    [keys |-> {}, id_card |-> <<>>, email |-> <<>>, role |-> STAFF, reportsTo |-> Null,
     department |-> None, is_active |-> TRUE, password |-> None, position |-> "p0",
     region |-> None, branch |-> None, isAdmin |-> FALSE]
Has(body, f) == f \in body.keys

\* Department.findById(id).lineManager: the Department schema has no such path
DepartmentLineManager(d) == Null
\* mongoose.Types.ObjectId.isValid
ObjectIdValid(d) == d \in Departments

\* User.findOne({ department, role: 'LINE_MANAGER', is_active: true })
findLineManagerOf(us, d) ==
    LET found == {u \in LiveUsers(us) :
                     us[u].department = d /\ us[u].role = LINE_MANAGER /\ us[u].is_active} IN
    IF found = {} THEN Null ELSE CHOOSE u \in found : \A v \in found : u <= v

\* the handler's progress: the answer so far (0 = none), the in-memory targetUser,
\* and whether the department changed
Reject(o, status, message) == [o EXCEPT !.status = status, !.message = message]
SelfOrManagerOrSuperAdmin(a, t) == a = t \/ checkRoles(a, {SUPER_ADMIN, LINE_MANAGER})

updateUser_authorize(a, t, body, o) ==
    LET level == canUpdateUser(a, t)
        unauthorizedFields == (body.keys \ getAllowedUpdateFields(level)) \ {"password"} IN
    IF findById(users, t) = Null THEN Reject(o, 403, "User not found")
    ELSE IF level = "denied" THEN Reject(o, 403, "Insufficient permissions")
    ELSE IF users[a].role = LINE_MANAGER /\ level # "manager" THEN Reject(o, 403, "LINE_MANAGER can only update their direct reports")
    ELSE IF getAllowedUpdateFields(level) = {} THEN Reject(o, 403, "No fields are allowed for this update operation")
    ELSE IF unauthorizedFields # {}
    THEN [o EXCEPT !.status = 403, !.message = "Not authorized to update fields",
                   !.allowedFields = getAllowedUpdateFields(level),
                   !.unauthorizedFields = unauthorizedFields]
    ELSE o

updateUser_deactivation(a, t, body, o) ==
    LET deactivates == Has(body, "is_active") /\ body.is_active = FALSE
        activeSuperAdmins == {u \in LiveUsers(users) \ {t} :
                                 users[u].role = SUPER_ADMIN /\ users[u].is_active} IN
    IF o.status # 0 \/ ~deactivates THEN o
    ELSE IF t = a THEN Reject(o, 400, "You cannot deactivate your own account")
    ELSE IF o.doc.role = SUPER_ADMIN /\ users[a].role # SUPER_ADMIN THEN Reject(o, 403, "Only SUPER_ADMIN can deactivate other SUPER_ADMIN accounts")
    ELSE IF o.doc.role = SUPER_ADMIN /\ activeSuperAdmins = {} THEN Reject(o, 400, "Cannot deactivate the last active SUPER_ADMIN account")
    ELSE o

updateUser_id_card(level, body, o) ==
    IF o.status # 0 \/ ~Has(body, "id_card") THEN o
    ELSE IF level # "super_admin" THEN Reject(o, 403, "Only SUPER_ADMIN can update ID card")
    ELSE IF ~IdCardFormat(body.id_card) THEN Reject(o, 400, "ID Card must follow format KE followed by 3 digits (e.g., KE001)")
    ELSE [o EXCEPT !.doc.id_card = body.id_card]

updateUser_department(body, o) ==
    IF o.status # 0 \/ ~Has(body, "department") THEN o
    ELSE IF ~ObjectIdValid(body.department) THEN Reject(o, 400, "Invalid department ID")
    ELSE [o EXCEPT !.departmentChanged =
                        (o.doc.department = None \/ o.doc.department # body.department),
                   !.doc.department = body.department]

updateUser_role(level, body, o) ==
    IF o.status # 0 \/ ~Has(body, "role") \/ body.role = o.doc.role THEN o
    ELSE IF level # "super_admin" THEN Reject(o, 403, "Only SUPER_ADMIN can change user roles")
    ELSE IF body.role \notin Roles THEN Reject(o, 400, "Invalid role specified")
    ELSE IF body.role = STAFF
    THEN LET unassigned == (~Has(body, "reportsTo") \/ body.reportsTo = Null)
                           /\ o.doc.reportsTo = Null
             lineManager == IF o.doc.department # None
                            THEN DepartmentLineManager(o.doc.department) ELSE Null IN
         [o EXCEPT !.doc.role = STAFF, !.doc.isAdmin = FALSE,
                   !.doc.reportsTo = IF unassigned /\ lineManager # Null
                                     THEN lineManager ELSE @]
    ELSE [o EXCEPT !.doc.role = body.role, !.doc.isAdmin = TRUE, !.doc.reportsTo = Null]

updateUser_reportsTo(a, body, o) ==
    IF o.status # 0 \/ ~Has(body, "reportsTo") THEN o
    ELSE IF o.doc.role = SUPER_ADMIN THEN Reject(o, 400, "SUPER_ADMIN cannot have a manager")
    ELSE IF body.reportsTo = Null
    THEN IF o.doc.role = STAFF THEN Reject(o, 400, "STAFF must have a line manager") ELSE [o EXCEPT !.doc.reportsTo = Null]
    ELSE IF findById(users, body.reportsTo) = Null THEN Reject(o, 400, "Specified manager not found")
    ELSE IF users[body.reportsTo].role \notin {LINE_MANAGER, SUPER_ADMIN} THEN Reject(o, 400, "ReportsTo must be a LINE_MANAGER or SUPER_ADMIN")
    ELSE IF users[body.reportsTo].role = SUPER_ADMIN /\ users[a].role # SUPER_ADMIN
    THEN Reject(o, 403, "Only SUPER_ADMIN can assign staff to SUPER_ADMIN")
    ELSE [o EXCEPT !.doc.reportsTo = body.reportsTo]

\* an updateUser that keeps the reportsTo it has after the reportsTo step
updateUser_autoAssign_never(o) == o

\* a STAFF member whose department changed is given that department's manager
updateUser_autoAssign(o) ==
    IF o.status # 0 \/ ~o.departmentChanged \/ o.doc.role # STAFF THEN o
    ELSE LET lineManager == DepartmentLineManager(o.doc.department)
             fallback == findLineManagerOf(users, o.doc.department) IN
         IF /\ lineManager # Null
            /\ Live(users, lineManager) /\ users[lineManager].is_active
            /\ users[lineManager].role \in {LINE_MANAGER, SUPER_ADMIN}
         THEN [o EXCEPT !.doc.reportsTo = lineManager]
         ELSE IF fallback # Null THEN [o EXCEPT !.doc.reportsTo = fallback]
         ELSE o

\* an updateUser password step that hashes the password at every level
updateUser_password_anyLevel(level, body, o) ==
    IF o.status # 0 \/ ~Has(body, "password") \/ body.password = None THEN o
    ELSE [o EXCEPT !.doc.password = Hash(body.password)]

\* if (req.body.password): an empty password is skipped, at every level
updateUser_password(level, body, o) ==
    IF o.status # 0 \/ ~Has(body, "password") \/ body.password = None THEN o
    ELSE IF level \notin {"self", "super_admin"} THEN Reject(o, 403, "Only users can update their own password or SUPER_ADMIN can update any password")
    ELSE [o EXCEPT !.doc.password = Hash(body.password)]

\* an updateUser whose copied fields include isAdmin
updateUser_basicFields_isAdmin(body, o) ==
    IF o.status # 0 THEN o
    ELSE [o EXCEPT !.doc.email = IF Has(body, "email") THEN body.email ELSE @,
                   !.doc.position = IF Has(body, "position") THEN body.position ELSE @,
                   !.doc.is_active = IF Has(body, "is_active") THEN body.is_active ELSE @,
                   !.doc.isAdmin = IF Has(body, "isAdmin") THEN body.isAdmin ELSE @]

\* basicFields: email, first_name, last_name, position, is_active
updateUser_basicFields(body, o) ==
    IF o.status # 0 THEN o
    ELSE [o EXCEPT !.doc.email = IF Has(body, "email") THEN body.email ELSE @,
                   !.doc.position = IF Has(body, "position") THEN body.position ELSE @,
                   !.doc.is_active = IF Has(body, "is_active") THEN body.is_active ELSE @]

updateUser_location(body, o) ==
    LET sent(f) == Has(body, f) /\ body[f] # None
        region == IF sent("region") THEN body.region ELSE o.doc.region
        branch == IF sent("branch") THEN body.branch ELSE o.doc.branch IN
    IF o.status # 0 \/ ~(sent("region") \/ sent("branch")) THEN o
    ELSE IF region \notin validRegions THEN Reject(o, 400, "Invalid region specified")
    ELSE IF branch \notin validBranches[region] THEN Reject(o, 400, "Invalid branch for the specified region")
    ELSE [o EXCEPT !.doc.region = region, !.doc.branch = branch]

\* targetUser.save(): the unique indexes on id_card and email
updateUser_save(t, o) ==
    IF o.status # 0 THEN o
    ELSE IF \E u \in LiveUsers(users) \ {t} :
               users[u].id_card = o.doc.id_card \/ users[u].email = o.doc.email
    THEN Reject(o, 409, "already exists")
    ELSE [o EXCEPT !.status = 200, !.message = "User updated successfully"]

\* the whole chain of vetoes and edits, in the order of the handler
updateUser_outcome(a, t, body) ==
    LET level == canUpdateUser(a, t)
        o0 == [status |-> 0, message |-> None, allowedFields |-> {}, unauthorizedFields |-> {},
               doc |-> users[t], departmentChanged |-> FALSE]
        o1 == updateUser_authorize(a, t, body, o0)
        o2 == updateUser_deactivation(a, t, body, o1)
        o3 == updateUser_id_card(level, body, o2)
        o4 == updateUser_department(body, o3)
        o5 == updateUser_role(level, body, o4)
        o6 == updateUser_reportsTo(a, body, o5)
        o7 == updateUser_autoAssign(o6)
        o8 == updateUser_password(level, body, o7)
        o9 == updateUser_basicFields(body, o8)
        o10 == updateUser_location(body, o9) IN
    updateUser_save(t, o10)

\* a handler that writes whatever it had edited when it stopped
updateUser_saved_always(o) == TRUE
\* the document is written by the save() at the end of the handler, and only there
updateUser_saved(o) == o.status = 200

\* the answer: status, message, and for a field rejection the two field lists
UpdateResponse(status, message, allowedFields, unauthorizedFields) ==
    [op |-> "updateUser", actor |-> Null, user |-> Null, status |-> status,
     body |-> [locked |-> FALSE, message |-> message, allowedFields |-> allowedFields,
               unauthorizedFields |-> unauthorizedFields]]

updateUser(a, t, body) ==
    /\ CanStart
    /\ IF ~authMiddleware(a)
       THEN /\ Respond(UpdateResponse(401, "Access Denied. User not found or inactive", {}, {}))
            /\ UNCHANGED users
       ELSE IF ~SelfOrManagerOrSuperAdmin(a, t)
       THEN /\ Respond(UpdateResponse(403, "Access denied", {}, {}))
            /\ UNCHANGED users
       ELSE LET o == updateUser_outcome(a, t, body) IN
            /\ users' = IF Live(users, t) /\ updateUser_saved(o)
                        THEN save(users, t, users[t], o.doc) ELSE users
            /\ Respond(UpdateResponse(o.status, o.message, o.allowedFields, o.unauthorizedFields))
    /\ UNCHANGED <<activities, departments, reqs, checks, now, inflightLimit, budget>>

-----------------------------------------------------------------------------
(* controllers/userController.js: deleteUser *)

\* a deleteUser that looks at the actor's role and at nothing about the target
deleteUserGate_roleOnly(a, t) ==
    IF ~authMiddleware(a) THEN 401
    ELSE IF ~isSuperAdmin(a) THEN 403
    ELSE IF findById(users, t) = Null THEN 404
    ELSE 200
\* the status deleteUser answers with: the route's middleware, then the
\* controller's checks in their order
deleteUserGate(a, t) ==
    IF ~authMiddleware(a) THEN 401
    ELSE IF ~isSuperAdmin(a) THEN 403
    ELSE IF findById(users, t) = Null THEN 404
    ELSE IF t = a THEN 400
    ELSE IF users[t].role = SUPER_ADMIN THEN 403
    ELSE 200

deleteUser(a, t) ==
    /\ CanStart
    /\ LET status == deleteUserGate(a, t) IN
       /\ users' = IF status = 200 THEN [users EXCEPT ![t] = GoneUser] ELSE users
       /\ Respond([op |-> "deleteUser", actor |-> Null, user |-> Null, status |-> status,
                   body |-> [locked |-> FALSE]])
    /\ UNCHANGED <<activities, departments, reqs, checks, now, inflightLimit, budget>>

-----------------------------------------------------------------------------
(* controllers/authController.js: registerUser *)

\* validateLocation(region, branch)
validateLocation(region, branch) == region \in validRegions /\ branch \in validBranches[region]

\* the _id the store gives the next document
FreeIds == {u \in UserIds : users[u].st = "free"}
NextId == CHOOSE u \in FreeIds : \A v \in FreeIds : u <= v

registerUser(a, card, email, role, reportsTo, department) ==
    /\ CanStart
    /\ FreeIds # {}
    /\ LET status ==
               IF ~authMiddleware(a) THEN 401
               ELSE IF ~isSuperAdmin(a) THEN 403
               ELSE IF ~IdCardFormat(card) THEN 400
               ELSE IF ~validateLocation("Lagos", "HQ") THEN 400
               ELSE IF findByCard(users, card) # Null \/ findByEmail(users, email) # Null THEN 409
               ELSE IF ~(department \in Departments /\ departments[department].st = "live"
                         /\ departments[department].isActive) THEN 400
               ELSE IF role = STAFF /\ reportsTo = Null THEN 400
               ELSE IF role = STAFF /\ ~(/\ Live(users, reportsTo)
                                         /\ users[reportsTo].role \in {LINE_MANAGER, SUPER_ADMIN}
                                         /\ users[reportsTo].is_active) THEN 400
               ELSE 201
           created == NewUser(NextId, card, email, "secret", role,
                              IF role = STAFF THEN reportsTo ELSE Null, department, FALSE) IN
       /\ users' = IF status = 201
                   THEN [users EXCEPT ![NextId] =
                            [created EXCEPT !.otp = Code("1"), !.otpExpiresAt = now + OtpTtl]]
                   ELSE users
       /\ Respond([op |-> "registerUser", actor |-> Null, user |-> Null, status |-> status,
                   body |-> [locked |-> FALSE]])
    /\ UNCHANGED <<activities, departments, reqs, checks, now, inflightLimit, budget>>

-----------------------------------------------------------------------------
(* controllers/departmentController.js: updateDepartment *)

updatableFields == {"name", "code", "description", "isActive"}

\* PUT /departments/:id with isActive and lineManager in the body: the fields
\* of updatableFields are copied to the document, any other is ignored
updateDepartment(a, d, isActive, lineManager) ==
    /\ CanStart
    /\ LET status == IF ~authMiddleware(a) THEN 401
                     ELSE IF ~isSuperAdmin(a) THEN 403
                     ELSE IF d \notin Departments \/ departments[d].st # "live" THEN 404
                     ELSE 200 IN
       /\ departments' = IF status = 200
                         THEN [departments EXCEPT ![d].isActive = isActive,
                                                  ![d].sentLineManager = lineManager]
                         ELSE departments
       /\ Respond([op |-> "updateDepartment", actor |-> a, user |-> Null, status |-> status,
                   body |-> [locked |-> FALSE]])
    /\ UNCHANGED <<users, activities, reqs, checks, now, inflightLimit, budget>>

\* User.countDocuments({ department: id, is_active: true })
activeUserCount(d) ==
    Cardinality({u \in LiveUsers(users) : users[u].department = d /\ users[u].is_active})

\* DELETE /departments/:id
deleteDepartment(a, d) ==
    /\ CanStart
    /\ LET status == IF ~authMiddleware(a) THEN 401
                     ELSE IF ~isSuperAdmin(a) THEN 403
                     ELSE IF d \notin Departments \/ departments[d].st # "live" THEN 404
                     ELSE IF activeUserCount(d) > 0 THEN 409
                     ELSE 200 IN
       /\ departments' = IF status = 200 THEN [departments EXCEPT ![d].st = "gone"]
                         ELSE departments
       /\ Respond([op |-> "deleteDepartment", actor |-> a, user |-> Null, status |-> status,
                   body |-> [locked |-> FALSE]])
    /\ UNCHANGED <<users, activities, reqs, checks, now, inflightLimit, budget>>

\* PATCH /departments/:id/toggle-status; sent: the body has an isActive
toggleDepartmentStatus(a, d, sent, isActive) ==
    /\ CanStart
    /\ LET status == IF ~authMiddleware(a) THEN 401
                     ELSE IF ~lineManagerOrSuperAdmin(a) THEN 403
                     ELSE IF ~users[a].isAdmin THEN 403
                     ELSE IF sent /\ ~isActive /\ users[a].role # SUPER_ADMIN THEN 403
                     ELSE IF d \notin Departments \/ departments[d].st # "live" THEN 404
                     ELSE IF sent /\ ~isActive /\ activeUserCount(d) > 0 THEN 409
                     ELSE 200 IN
       /\ departments' = IF status = 200
                         THEN [departments EXCEPT ![d].isActive =
                                  IF sent THEN isActive ELSE ~@]
                         ELSE departments
       /\ Respond([op |-> "toggleDepartmentStatus", actor |-> a, user |-> Null,
                   status |-> status, body |-> [locked |-> FALSE]])
    /\ UNCHANGED <<users, activities, reqs, checks, now, inflightLimit, budget>>

-----------------------------------------------------------------------------
(* controllers/activityController.js: createDailyActivity and getAllActivities *)

MinutesPerDay == 1440
\* d.setHours(0, 0, 0, 0)
StartOfDay(t) == t - (t % MinutesPerDay)
ActivityStatuses == {"pending", "ongoing", "completed"}

ActivityResponse(op, a, status, data) ==
    [op |-> op, actor |-> a, user |-> Null, status |-> status,
     body |-> [locked |-> FALSE, data |-> data]]

createDailyActivity(a, timeInterval, description, status) ==
    /\ CanStart
    /\ LET code == IF ~authMiddleware(a) THEN 401
                   ELSE IF timeInterval = None \/ description = None THEN 400
                   ELSE IF status # None /\ status \notin ActivityStatuses THEN 400
                   ELSE 201
           activity == [id |-> Len(activities) + 1, user |-> a, date |-> StartOfDay(now),
                        description |-> description,
                        status |-> IF status = None THEN "pending" ELSE status,
                        createdAt |-> now] IN
       /\ activities' = IF code = 201 THEN Append(activities, activity) ELSE activities
       /\ Respond(ActivityResponse("createDailyActivity", a, code, <<>>))
    /\ UNCHANGED <<users, departments, reqs, checks, now, inflightLimit, budget>>

\* the place of a deleted document: no owner, no status
GoneActivity(activity) == [activity EXCEPT !.user = Null, !.status = "gone"]
LiveActivity(id) == id \in 1..Len(activities) /\ activities[id].status # "gone"

\* a lookup by _id alone
findActivity_anyOwner(id, owner) ==
    IF LiveActivity(id) THEN id ELSE Null
\* DailyActivity.findOne({ _id: id, user: owner })
findActivity(id, owner) ==
    IF LiveActivity(id) /\ activities[id].user = owner THEN id ELSE Null

\* PUT /activities/:id up to the findOne and the checks on the loaded document;
\* None = the field is not in the body
updateDailyActivity(c, a, id, description, status) ==
    /\ reqs[c].pc = "idle"
    /\ CanStart
    /\ LET found == findActivity(id, a)
           code == IF ~authMiddleware(a) THEN 401
                   ELSE IF description = None /\ status = None THEN 400
                   ELSE IF status # None /\ status \notin ActivityStatuses THEN 400
                   ELSE IF found = Null THEN 404
                   ELSE IF /\ activities[found].status = "completed"
                           /\ status # "completed" /\ status # None THEN 400
                   ELSE 0
           edited == [activities[found] EXCEPT
                         !.description = IF description # None THEN description ELSE @,
                         !.status = IF status # None THEN status ELSE @] IN
       IF code # 0
       THEN Respond(ActivityResponse("updateDailyActivity", a, code, <<>>)) /\ UNCHANGED reqs
       ELSE /\ reqs' = [reqs EXCEPT ![c] =
                   [Idle EXCEPT !.pc = "updateDailyActivity_save", !.user = a,
                                !.rows = <<activities[found], edited>>]]
            /\ last' = NoResponse
            /\ UNCHANGED served
    /\ UNCHANGED <<users, activities, departments, checks, now, inflightLimit, budget>>

\* activity.save(): the paths changed since the document was loaded are written
saveActivity(stored, loaded, edited) ==
    [stored EXCEPT !.description = IF edited.description # loaded.description
                                   THEN edited.description ELSE @,
                   !.status = IF edited.status # loaded.status THEN edited.status ELSE @]

updateDailyActivity_save(c) ==
    /\ reqs[c].pc = "updateDailyActivity_save"
    /\ LET loaded == reqs[c].rows[1]
           edited == reqs[c].rows[2] IN
       IF ~LiveActivity(loaded.id)
       THEN \* save() of a document that is gone throws: the catch answers 500
            /\ UNCHANGED activities
            /\ Respond(ActivityResponse("updateDailyActivity", reqs[c].user, 500, <<>>))
       ELSE /\ activities' = [activities EXCEPT ![loaded.id] = saveActivity(@, loaded, edited)]
            /\ Respond(ActivityResponse("updateDailyActivity", reqs[c].user, 200, <<edited>>))
    /\ reqs' = [reqs EXCEPT ![c] = Idle]
    /\ UNCHANGED <<users, departments, checks, now, inflightLimit, budget>>

\* DELETE /activities/:id: DailyActivity.findOneAndDelete({ _id: id, user: req.user._id })
deleteDailyActivity(a, id) ==
    /\ CanStart
    /\ LET found == findActivity(id, a)
           code == IF ~authMiddleware(a) THEN 401
                   ELSE IF found = Null THEN 404
                   ELSE 200 IN
       /\ activities' = IF code = 200
                        THEN [activities EXCEPT ![found] = GoneActivity(@)]
                        ELSE activities
       /\ Respond(ActivityResponse("deleteDailyActivity", a, code, <<>>))
    /\ UNCHANGED <<users, departments, reqs, checks, now, inflightLimit, budget>>

\* User.find({ reportsTo: manager, role: 'STAFF', ...userFilter }).select('_id')
directReportsOf(us, a, region, branch) ==
    {u \in LiveUsers(us) :
        /\ us[u].reportsTo = a /\ us[u].role = STAFF
        /\ (region # None => us[u].region = region)
        /\ (branch # None => us[u].branch = branch)}

\* the first part of the handler, up to the query on DailyActivity: the user
\* filter it will use (ids), or the answer it stops with
getAllActivities_filter(a, q) ==
    LET role == users[a].role
        reports == directReportsOf(users, a, None, None)
        located == q.user = Null /\ (q.region # None \/ q.branch # None)
        inPlace == IF role = LINE_MANAGER
                   THEN directReportsOf(users, a, q.region, q.branch)
                   ELSE {u \in LiveUsers(users) :
                            /\ (q.region # None => users[u].region = q.region)
                            /\ (q.branch # None => users[u].branch = q.branch)} IN
    IF role = LINE_MANAGER /\ reports = {} THEN [status |-> 200, ids |-> {}]
    ELSE IF q.user # Null /\ findById(users, q.user) = Null THEN [status |-> 404, ids |-> {}]
    ELSE IF /\ q.user # Null /\ role = LINE_MANAGER
            /\ ~(/\ users[q.user].role = STAFF /\ users[q.user].reportsTo # Null
                 /\ users[q.user].reportsTo = a)
    THEN [status |-> 403, ids |-> {}]
    ELSE IF q.status # None /\ q.status \notin ActivityStatuses THEN [status |-> 400, ids |-> {}]
    ELSE IF located /\ inPlace = {} THEN [status |-> 200, ids |-> {}]
    ELSE [status |-> 0,
          ids |-> IF q.user # Null THEN {q.user}
                  ELSE IF located THEN inPlace
                  ELSE IF role = LINE_MANAGER THEN reports
                  ELSE UserIds]

getAllActivities(c, a, q) ==
    /\ reqs[c].pc = "idle"
    /\ CanStart
    /\ IF ~authMiddleware(a)
       THEN Respond(ActivityResponse("getAllActivities", a, 401, <<>>)) /\ UNCHANGED reqs
       ELSE IF ~checkRoles(a, {SUPER_ADMIN, LINE_MANAGER})
       THEN Respond(ActivityResponse("getAllActivities", a, 403, <<>>)) /\ UNCHANGED reqs
       ELSE LET f == getAllActivities_filter(a, q) IN
            IF f.status # 0
            THEN Respond(ActivityResponse("getAllActivities", a, f.status, <<>>)) /\ UNCHANGED reqs
            ELSE /\ reqs' = [reqs EXCEPT ![c] =
                        [Idle EXCEPT !.pc = "getAllActivities_find", !.user = a,
                                     !.doc = users[a], !.ids = f.ids, !.query = q]]
                 /\ last' = NoResponse
                 /\ UNCHANGED served
    /\ UNCHANGED <<users, activities, departments, checks, now, inflightLimit, budget>>

\* .sort({ date: -1, createdAt: 1 }); documents that tie keep insertion order
Before(x, y) ==
    \/ x.date > y.date
    \/ x.date = y.date /\ x.createdAt < y.createdAt
    \/ x.date = y.date /\ x.createdAt = y.createdAt /\ x.id < y.id

RECURSIVE sortActivities(_)
sortActivities(S) ==
    IF S = {} THEN <<>>
    ELSE LET first == CHOOSE x \in S : \A y \in S \ {x} : Before(x, y) IN
         <<first>> \o sortActivities(S \ {first})

\* .skip(skip).limit(limit)
SkipLimit(rows, skip, limit) ==
    SubSeq(rows, skip + 1, IF skip + limit < Len(rows) THEN skip + limit ELSE Len(rows))

\* DailyActivity.find(filter) with the filter built from the remembered ids
getAllActivities_find(c) ==
    /\ reqs[c].pc = "getAllActivities_find"
    /\ LET q == reqs[c].query
           matching == {activities[i] : i \in {j \in 1..Len(activities) :
                            /\ activities[j].user \in reqs[c].ids
                            /\ (q.date # Null => activities[j].date = StartOfDay(q.date))
                            /\ (q.status # None => activities[j].status = q.status)}} IN
       reqs' = [reqs EXCEPT ![c].pc = "getAllActivities_populate",
                            ![c].rows = SkipLimit(sortActivities(matching), (q.page - 1) * q.limit, q.limit)]
    /\ UNCHANGED <<users, activities, departments, last, served, checks, now, inflightLimit, budget>>

\* populate('user') with the nested populate('reportsTo'): a reference to a
\* document that is gone populates as null
populateActivity(us, activity) ==
    LET owner == populate(us, activity.user) IN
    [id |-> activity.id, user |-> owner,
     reportsTo |-> IF owner = Null THEN Null ELSE populate(us, us[owner].reportsTo)]

\* the listing without the check on the populated owner: the ids remembered
\* from the first query decide
postFilter_remembered(role, a, row) == TRUE
\* the LINE_MANAGER post-filter on the populated owner
postFilter(role, a, row) ==
    role = LINE_MANAGER => (row.user # Null /\ row.reportsTo # Null /\ row.reportsTo = a)

getAllActivities_populate(c) ==
    /\ reqs[c].pc = "getAllActivities_populate"
    /\ LET a == reqs[c].user
           populated == [i \in 1..Len(reqs[c].rows) |-> populateActivity(users, reqs[c].rows[i])]
           filteredActivities == SelectSeq(populated, LAMBDA row : postFilter(reqs[c].doc.role, a, row)) IN
       /\ last' = ActivityResponse("getAllActivities", a, 200, filteredActivities)
       /\ served' = served + 1
    /\ reqs' = [reqs EXCEPT ![c] = Idle]
    /\ UNCHANGED <<users, activities, departments, checks, now, inflightLimit, budget>>

-----------------------------------------------------------------------------
(* Reading one user: middleware/roleMiddleware selfOrAdmin and               *)
(* selfManagerOrSuperAdmin, controllers/userController.js getUser,           *)
(* controllers/activityController.js getActivitiesByUser                     *)

adminRoles == {SUPER_ADMIN, LINE_MANAGER}

\* selfOrAdmin: the caller's own id, or any caller with an admin role
selfOrAdmin(a, t) == t = a \/ users[a].role \in adminRoles

\* selfManagerOrSuperAdmin: the same test; the comment in the source leaves
\* the detailed check to the controller
selfManagerOrSuperAdmin(a, t) == t = a \/ users[a].role \in adminRoles

\* User.findById(id).select('-password').populate('reportsTo', ...)
selectUser(us, t) ==
    [us[t] EXCEPT !.password = BlankUser.password, !.reportsTo = populate(us, us[t].reportsTo)]

\* GET /users/:id
getUser(a, t) ==
    /\ CanStart
    /\ LET status == IF ~authMiddleware(a) THEN 401
                     ELSE IF ~selfOrAdmin(a, t) THEN 403
                     ELSE IF findById(users, t) = Null THEN 404
                     ELSE 200 IN
       Respond([op |-> "getUser", actor |-> a, user |-> t, status |-> status,
                body |-> [locked |-> FALSE,
                          data |-> IF status = 200 THEN selectUser(users, t) ELSE BlankUser]])
    /\ UNCHANGED <<users, activities, departments, reqs, checks, now, inflightLimit, budget>>

\* user.role === 'STAFF' && user.reportsTo && user.reportsTo._id == req.user._id
isDirectReport(a, t) ==
    /\ users[t].role = STAFF
    /\ populate(users, users[t].reportsTo) # Null
    /\ populate(users, users[t].reportsTo) = a

\* { user: id, user: { $exists: true, $ne: null } }: the second `user` key of
\* the object literal replaces the first, so the owner is only required to be set
byUserFilter(t, date, status) ==
    {activities[i] : i \in {j \in 1..Len(activities) :
        /\ activities[j].user # Null
        /\ (date # Null => activities[j].date = StartOfDay(date))
        /\ (status # None => activities[j].status = status)}}

\* GET /activities/user/:id with the default page and limit
getActivitiesByUser(a, t, date, status) ==
    /\ CanStart
    /\ LET code == IF ~authMiddleware(a) THEN 401
                   ELSE IF ~selfManagerOrSuperAdmin(a, t) THEN 403
                   ELSE IF findById(users, t) = Null THEN 404
                   ELSE IF users[a].role = LINE_MANAGER /\ ~isDirectReport(a, t) THEN 403
                   ELSE IF users[a].role = STAFF /\ t # a THEN 403
                   ELSE IF status # None /\ status \notin ActivityStatuses THEN 400
                   ELSE 200
           rows == SkipLimit(sortActivities(byUserFilter(t, date, status)), 0, NoQuery.limit)
           data == IF code = 200
                   THEN [i \in 1..Len(rows) |-> populateActivity(users, rows[i])]
                   ELSE <<>> IN
       Respond([op |-> "getActivitiesByUser", actor |-> a, user |-> t, status |-> code,
                body |-> [locked |-> FALSE, data |-> data]])
    /\ UNCHANGED <<users, activities, departments, reqs, checks, now, inflightLimit, budget>>

-----------------------------------------------------------------------------
(* Account security: login, lockout, unlock, OTP and password handlers over  *)
(* a directory of one SUPER_ADMIN (the seeded one), one LINE_MANAGER and one *)
(* STAFF member reporting to that manager.                                   *)

Org ==
    [u \in UserIds |->
        CASE u = 1 -> NewUser(1, CardOf(1), EmailOf(1), "secret", SUPER_ADMIN, Null, "d1", TRUE)
          [] u = 2 -> NewUser(2, CardOf(2), EmailOf(2), "secret", LINE_MANAGER, Null, "d1", TRUE)
          [] u = 3 -> NewUser(3, CardOf(3), EmailOf(3), "secret", STAFF, 2, "d1", TRUE)
          [] u = 4 -> NewUser(4, CardOf(4), EmailOf(4), "secret", LINE_MANAGER, Null, "d2", TRUE)
          [] OTHER -> BlankUser]

InitSequential ==
    /\ \E verified \in BOOLEAN : users = [Org EXCEPT ![3].isVerified = verified]
    /\ activities = <<>>
    /\ departments = [d \in Departments |-> BlankDepartment]
    /\ reqs = [c \in Clients |-> Idle]
    /\ last = NoResponse
    /\ served = 0
    /\ checks = [u \in UserIds |-> [sinceSuccess |-> 0, sinceReset |-> 0]]
    /\ now = 1
    /\ inflightLimit = 1
    /\ budget = MaxRequests

InitConcurrent ==
    /\ \E verified \in BOOLEAN : users = [Org EXCEPT ![3].isVerified = verified]
    /\ activities = <<>>
    /\ departments = [d \in Departments |-> BlankDepartment]
    /\ reqs = [c \in Clients |-> Idle]
    /\ last = NoResponse
    /\ served = 0
    /\ checks = [u \in UserIds |-> [sinceSuccess |-> 0, sinceReset |-> 0]]
    /\ now = 1
    /\ inflightLimit = MaxClients
    /\ budget = MaxRequests

\* the accounts the requests of this scenario name: the STAFF member, the
\* SUPER_ADMIN, and an employee code nobody holds
NoCard == Card("7")
AccountCards == {CardOf(3), CardOf(1), NoCard}

loginSteps(cards) ==
    \E c \in Clients :
        \/ \E card \in cards, pw \in Passwords : loginUser(c, card, pw)
        \/ failedLogin_find(c)
        \/ failedLogin_save(c)
        \/ failedLogin_refetch(c)
        \/ loginUser_attemptsRemaining(c)
        \/ successfulLogin_find(c)
        \/ successfulLogin_save(c)
        \/ loginUser_checkin(c)
        \/ loginUser_sendOtp(c)

NextAccounts ==
    \/ loginSteps(AccountCards \cup {BadCard})
    \/ \E a \in UserIds, card \in AccountCards, mail \in BOOLEAN : unlockAccount(a, card, mail)
    \/ \E a \in UserIds, card \in AccountCards, mail \in BOOLEAN :
          lockAccount(a, card, None, mail)
    \/ \E otp \in {Code("1"), BadCode} : verifyOtp(CardOf(3), otp)
    \/ resendOtp(CardOf(3), Code("1"))
    \/ \E by \in {<<CardOf(3), <<>> >>, << <<>>, EmailOf(3)>>, << <<>>, <<>> >>} :
          requestPasswordReset(by[1], by[2], Code("1"))
    \/ \E token \in {Code("1"), BadCode} : verifyResetToken(CardOf(3), token)
    \/ \E token \in {Code("1"), BadCode} : resetPassword(CardOf(3), token, "hunter2")
    \/ \E cur \in Passwords, new \in {"hunter2", ShortPassword} : changePassword(3, cur, new)
    \/ \E a \in {2, 3}, place \in {<<"Delta", "Warri">>, <<"Lagos", "Warri">>} :
          checkinUser(a, 3, place[1], place[2])

\* one request at a time
SpecSequential == InitSequential /\ [][NextAccounts]_vars

\* logins to one account overlapping at their awaits, with every other handler
\* that writes the account in between
NextRace ==
    \/ loginSteps({CardOf(3)})
    \/ \E a \in {1, 2} : unlockAccount(a, CardOf(3), TRUE)
    \/ lockAccount(1, CardOf(3), None, TRUE)
    \/ changePassword(3, "secret", "hunter2")
    \/ verifyOtp(CardOf(3), Code("1"))
    \/ resendOtp(CardOf(3), Code("1"))
    \/ requestPasswordReset(CardOf(3), <<>>, Code("1"))
    \/ verifyResetToken(CardOf(3), Code("1"))
    \/ resetPassword(CardOf(3), Code("1"), "hunter2")
    \/ checkinUser(3, 3, "Delta", "Warri")
    \/ \E a \in {1, 3} : updateUser(a, 3, [NoBody EXCEPT !.keys = {"email"}, !.email = EmailOf(9)])

SpecConcurrent == InitConcurrent /\ [][NextRace]_vars

-----------------------------------------------------------------------------
(* The directory: registration, update, deletion, manual lock and unlock,    *)
(* one request at a time, over the same organisation.                        *)

UpdateBodies ==
    {[NoBody EXCEPT !.keys = {"role"}, !.role = r] : r \in {STAFF, LINE_MANAGER, "ROOT"}}
    \cup {[NoBody EXCEPT !.keys = {"is_active"}, !.is_active = FALSE]}
    \cup {[NoBody EXCEPT !.keys = {"id_card"}, !.id_card = c] : c \in {Card("9"), BadCard}}
    \cup {[NoBody EXCEPT !.keys = {"email"}, !.email = EmailOf(9)]}
    \cup {[NoBody EXCEPT !.keys = {"email", "is_active"}, !.email = EmailOf(9),
                         !.is_active = FALSE]}
    \cup {[NoBody EXCEPT !.keys = {"id_card", "role"}, !.id_card = Card("9"), !.role = "ROOT"]}
    \cup {[NoBody EXCEPT !.keys = {"reportsTo"}, !.reportsTo = m] : m \in {Null, 3, 4}}
    \cup {[NoBody EXCEPT !.keys = {"department"}, !.department = "d2"]}
    \cup {[NoBody EXCEPT !.keys = {"password"}, !.password = "hunter2"]}
    \cup {[NoBody EXCEPT !.keys = {"email", "password"}, !.email = EmailOf(9),
                         !.password = None]}
    \cup {[NoBody EXCEPT !.keys = {"region"}, !.region = "Delta"]}
    \cup {[NoBody EXCEPT !.keys = {"isAdmin"}, !.isAdmin = TRUE]}

InitDirectory ==
    /\ users = Org
    /\ activities = <<>>
    /\ departments = [d \in Departments |-> BlankDepartment]
    /\ reqs = [c \in Clients |-> Idle]
    /\ last = NoResponse
    /\ served = 0
    /\ checks = [u \in UserIds |-> [sinceSuccess |-> 0, sinceReset |-> 0]]
    /\ now = 1
    /\ inflightLimit = 1
    /\ budget = MaxDirectoryRequests

NextDirectory ==
    \/ \E a \in {1, 2}, card \in {CardOf(5), CardOf(1), BadCard}, role \in Roles,
          reportsTo \in {Null, 2, 3} :
          registerUser(a, card, EmailOf(5), role, reportsTo, "d1")
    \/ \E a \in {1, 2, 3}, t \in {1, 2, 3}, body \in UpdateBodies : updateUser(a, t, body)
    \/ \E a \in {1, 2}, t \in {1, 2, 3} : deleteUser(a, t)
    \/ \E a \in {1, 2, 4} : lockAccount(a, CardOf(3), None, TRUE)
    \/ \E a \in {1, 2, 3, 4} : unlockAccount(a, CardOf(3), TRUE)

SpecDirectory == InitDirectory /\ [][NextDirectory]_vars

-----------------------------------------------------------------------------
(* The activity listing: two teams (one STAFF member under each manager),    *)
(* activities logged around midnight, listings by every role interleaved     *)
(* with changes of the reporting lines.                                      *)

MaxActivityRequests == 3

TwoTeams == [Org EXCEPT ![5] = NewUser(5, CardOf(5), EmailOf(5), "secret", STAFF, 4, "d2", TRUE)]

LateEvening == MinutesPerDay - TickMinutes

InitActivities ==
    /\ users = TwoTeams
    /\ activities = <<>>
    /\ departments = [d \in Departments |-> BlankDepartment]
    /\ reqs = [c \in Clients |-> Idle]
    /\ last = NoResponse
    /\ served = 0
    /\ checks = [u \in UserIds |-> [sinceSuccess |-> 0, sinceReset |-> 0]]
    /\ now = LateEvening
    /\ inflightLimit = MaxClients
    /\ budget = MaxActivityRequests

ListingQueries ==
    {NoQuery,
     [NoQuery EXCEPT !.user = 3],
     [NoQuery EXCEPT !.user = 5, !.status = "pending"],
     [NoQuery EXCEPT !.date = MinutesPerDay + 1],
     [NoQuery EXCEPT !.status = "completed"],
     [NoQuery EXCEPT !.status = "done"],
     [NoQuery EXCEPT !.region = "Lagos"],
     [NoQuery EXCEPT !.region = "Lagos", !.branch = "HQ", !.date = LateEvening],
     [NoQuery EXCEPT !.branch = "Warri"],
     [NoQuery EXCEPT !.user = 3, !.region = "Delta", !.status = "pending"],
     [NoQuery EXCEPT !.limit = 1, !.page = 2]}

ReportingLines ==
    {[NoBody EXCEPT !.keys = {"reportsTo"}, !.reportsTo = m] : m \in {2, 4}}
    \cup {[NoBody EXCEPT !.keys = {"role"}, !.role = LINE_MANAGER]}

NextActivities ==
    \/ \E a \in {3, 5}, timeInterval \in {None, "09:00-10:00"}, status \in {None, "completed", "done"} :
          createDailyActivity(a, timeInterval, "standup", status)
    \/ \E c \in Clients, a \in {1, 2, 3, 4}, q \in ListingQueries : getAllActivities(c, a, q)
    \/ \E c \in Clients : getAllActivities_find(c)
    \/ \E c \in Clients : getAllActivities_populate(c)
    \/ \E t \in {3, 5}, body \in ReportingLines : updateUser(1, t, body)
    \/ deleteUser(1, 4)
    \/ Tick

SpecActivities == InitActivities /\ [][NextActivities]_vars

-----------------------------------------------------------------------------
(* The reporting lines: registration, role, reportsTo and department changes  *)
(* of users, and updates of departments, one request at a time.              *)

MaxReportingRequests == 3

ReportingBodies ==
    {[NoBody EXCEPT !.keys = {"reportsTo"}, !.reportsTo = m] : m \in {Null, 2, 4}}
    \cup {[NoBody EXCEPT !.keys = {"role"}, !.role = r] : r \in {STAFF, LINE_MANAGER}}
    \cup {[NoBody EXCEPT !.keys = {"role", "reportsTo"}, !.role = LINE_MANAGER, !.reportsTo = 4]}
    \cup {[NoBody EXCEPT !.keys = {"role", "reportsTo"}, !.role = STAFF, !.reportsTo = 2]}
    \cup {[NoBody EXCEPT !.keys = {"department"}, !.department = d] : d \in {"d2", "d9"}}
    \cup {[NoBody EXCEPT !.keys = {"department", "reportsTo"}, !.department = "d2",
                         !.reportsTo = 2]}

InitReporting ==
    /\ users = Org
    /\ activities = <<>>
    /\ departments = [d \in Departments |-> BlankDepartment]
    /\ reqs = [c \in Clients |-> Idle]
    /\ last = NoResponse
    /\ served = 0
    /\ checks = [u \in UserIds |-> [sinceSuccess |-> 0, sinceReset |-> 0]]
    /\ now = 1
    /\ inflightLimit = 1
    /\ budget = MaxReportingRequests

NextReporting ==
    \/ \E role \in Roles, reportsTo \in {Null, 2, 3} :
          registerUser(1, CardOf(5), EmailOf(5), role, reportsTo, "d2")
    \/ \E a \in {1, 2}, t \in {2, 3, 4}, body \in ReportingBodies : updateUser(a, t, body)
    \/ \E a \in {1, 2}, isActive \in BOOLEAN, lineManager \in {Null, 2, 4} :
          updateDepartment(a, "d2", isActive, lineManager)
    \/ \E a \in {1, 2}, sent \in BOOLEAN, isActive \in BOOLEAN :
          toggleDepartmentStatus(a, "d2", sent, isActive)
    \/ \E a \in {1, 2} : deleteDepartment(a, "d2")

SpecReporting == InitReporting /\ [][NextReporting]_vars

-----------------------------------------------------------------------------
(* The activity log of one STAFF member: entries created and updated by      *)
(* overlapping requests.                                                     *)

MaxLogRequests == 4

InitActivityLog ==
    /\ users = Org
    /\ activities = <<>>
    /\ departments = [d \in Departments |-> BlankDepartment]
    /\ reqs = [c \in Clients |-> Idle]
    /\ last = NoResponse
    /\ served = 0
    /\ checks = [u \in UserIds |-> [sinceSuccess |-> 0, sinceReset |-> 0]]
    /\ now = 1
    /\ inflightLimit = MaxClients
    /\ budget = MaxLogRequests

NextActivityLog ==
    \/ \E status \in {None, "completed"} : createDailyActivity(3, "09:00 - 10:00", "standup", status)
    \/ \E c \in Clients, a \in {1, 2, 3}, id \in {1, 2}, description \in {None, "retro"},
          status \in {None, "pending", "ongoing", "completed", "done"} :
          updateDailyActivity(c, a, id, description, status)
    \/ \E c \in Clients : updateDailyActivity_save(c)
    \/ \E a \in {1, 2, 3}, id \in {1, 2} : deleteDailyActivity(a, id)

SpecActivityLog == InitActivityLog /\ [][NextActivityLog]_vars

-----------------------------------------------------------------------------
(* Manual lock and unlock of accounts of every role, by actors of every      *)
(* role, in an organisation with a second SUPER_ADMIN and one account locked *)
(* by failed logins; the STAFF member may be moved to the other manager.     *)

MaxLockRequests == 3

TwoAdmins ==
    [Org EXCEPT ![5] = NewUser(5, CardOf(5), EmailOf(5), "secret", SUPER_ADMIN, Null, "d1", TRUE)]

LockCards == {CardOf(1), CardOf(2), CardOf(3), CardOf(4), NoCard}

\* the manager of the other team has just been locked by a third failed login
InitLocks ==
    /\ now = 1
    /\ users = [TwoAdmins EXCEPT ![4] = failedLoginEdit([@ EXCEPT !.loginAttempts = 2])]
    /\ activities = <<>>
    /\ departments = [d \in Departments |-> BlankDepartment]
    /\ reqs = [c \in Clients |-> Idle]
    /\ last = NoResponse
    /\ served = 0
    /\ checks = [u \in UserIds |-> [sinceSuccess |-> 0, sinceReset |-> 0]]
    /\ inflightLimit = 1
    /\ budget = MaxLockRequests

NextLocks ==
    \/ \E a \in UserIds, card \in LockCards, reason \in LockReasons, mail \in BOOLEAN :
          lockAccount(a, card, reason, mail)
    \/ \E a \in UserIds, card \in LockCards, mail \in BOOLEAN : unlockAccount(a, card, mail)
    \/ updateUser(1, 3, [NoBody EXCEPT !.keys = {"reportsTo"}, !.reportsTo = 4])

SpecLocks == InitLocks /\ [][NextLocks]_vars

-----------------------------------------------------------------------------
(* controllers/userController.js: getUsers and getUsersByLocation;           *)
(* controllers/authController.js: getLockedAccounts                          *)

\* User.find(query): the ids of the documents with the given reportsTo (when
\* byManager), region and branch (None = the key is not in the query)
findUsers(us, byManager, manager, region, branch) ==
    {u \in LiveUsers(us) :
        /\ (byManager => us[u].reportsTo = manager)
        /\ (region # None => us[u].region = region)
        /\ (branch # None => us[u].branch = branch)}

ListResponse(op, a, status, data) ==
    [op |-> op, actor |-> a, user |-> Null, status |-> status,
     body |-> [locked |-> FALSE, count |-> Cardinality(data), data |-> data]]

\* GET /users, behind isAdmin: the handler reads nothing from the query string
getUsers(a) ==
    /\ CanStart
    /\ LET status == IF ~authMiddleware(a) THEN 401
                     ELSE IF ~checkRoles(a, adminRoles) THEN 403
                     ELSE 200
           data == findUsers(users, users[a].role = LINE_MANAGER, a, None, None) IN
       Respond(ListResponse("getUsers", a, status, IF status = 200 THEN data ELSE {}))
    /\ UNCHANGED <<users, activities, departments, reqs, checks, now, inflightLimit, budget>>

\* a getUsersByLocation whose location filter stands in for the manager's
findByLocation_locationOnly(a, region, branch) ==
    findUsers(users, FALSE, a, region, branch)
\* the query of getUsersByLocation: region, branch and, for a LINE_MANAGER, reportsTo
findByLocation(a, region, branch) ==
    findUsers(users, users[a].role = LINE_MANAGER, a, region, branch)

\* GET /users/location?region=&branch=, behind isAdmin
getUsersByLocation(a, region, branch) ==
    /\ CanStart
    /\ LET data == findByLocation(a, region, branch)
           status == IF ~authMiddleware(a) THEN 401
                     ELSE IF ~checkRoles(a, adminRoles) THEN 403
                     ELSE IF region = None /\ branch = None THEN 400
                     ELSE IF region # None /\ region \notin validRegions THEN 400
                     ELSE IF data = {} THEN 404
                     ELSE 200 IN
       Respond(ListResponse("getUsersByLocation", a, status, IF status = 200 THEN data ELSE {}))
    /\ UNCHANGED <<users, activities, departments, reqs, checks, now, inflightLimit, budget>>

\* User.getLockedAccounts(): find({ isLocked: true }) with reportsTo populated
User_getLockedAccounts(us) == {u \in LiveUsers(us) : us[u].isLocked}

\* the data of the locked-accounts answer for actor a over the directory us
lockedAccountsData(us, a) ==
    LET lockedAccounts == User_getLockedAccounts(us)
        filteredAccounts ==
            IF us[a].role = LINE_MANAGER
            THEN {u \in lockedAccounts :
                     /\ us[u].role = STAFF
                     /\ populate(us, us[u].reportsTo) # Null
                     /\ populate(us, us[u].reportsTo) = a}
            ELSE lockedAccounts IN
    [count |-> Cardinality(filteredAccounts),
     totalCount |-> Cardinality(lockedAccounts),
     userRole |-> us[a].role,
     accounts |-> {[id |-> u, lockedAt |-> us[u].lockedAt,
                    lockedReason |-> us[u].lockedReason] : u \in filteredAccounts}]

\* GET /locked-accounts, behind lineManagerOrSuperAdmin
getLockedAccounts(a) ==
    /\ CanStart
    /\ LET status == IF ~authMiddleware(a) THEN 401
                     ELSE IF ~lineManagerOrSuperAdmin(a) THEN 403
                     ELSE IF ~users[a].isAdmin THEN 403
                     ELSE 200 IN
       Respond([op |-> "getLockedAccounts", actor |-> a, user |-> Null, status |-> status,
                body |-> IF status = 200
                         THEN [locked |-> FALSE, data |-> lockedAccountsData(users, a)]
                         ELSE [locked |-> FALSE]])
    /\ UNCHANGED <<users, activities, departments, reqs, checks, now, inflightLimit, budget>>

-----------------------------------------------------------------------------
(* Listings: the two teams, users and locked accounts listed by every role,  *)
(* while accounts are locked and unlocked, the STAFF member of the first     *)
(* team moves to the other manager and to another region.                    *)

MaxListingRequests == 3

InitListings ==
    /\ users = TwoTeams
    /\ activities = <<>>
    /\ departments = [d \in Departments |-> BlankDepartment]
    /\ reqs = [c \in Clients |-> Idle]
    /\ last = NoResponse
    /\ served = 0
    /\ checks = [u \in UserIds |-> [sinceSuccess |-> 0, sinceReset |-> 0]]
    /\ now = 1
    /\ inflightLimit = 1
    /\ budget = MaxListingRequests

NextListings ==
    \/ \E a \in {1, 2, 3, 4} : getUsers(a)
    \/ \E a \in {1, 2, 3, 4}, region \in {None, "Lagos", "Delta", "Mars"},
          branch \in {None, "HQ", "Warri"} : getUsersByLocation(a, region, branch)
    \/ \E a \in {1, 2, 3, 4} : getLockedAccounts(a)
    \/ \E a \in {1, 2, 4}, card \in {CardOf(3), CardOf(5)} : lockAccount(a, card, None, TRUE)
    \/ \E a \in {1, 2, 4}, card \in {CardOf(3), CardOf(5)} : unlockAccount(a, card, TRUE)
    \/ updateUser(1, 3, [NoBody EXCEPT !.keys = {"reportsTo"}, !.reportsTo = 4])
    \/ updateUser(1, 3, [NoBody EXCEPT !.keys = {"region", "branch"}, !.region = "Delta",
                                       !.branch = "Warri"])

SpecListings == InitListings /\ [][NextListings]_vars

-----------------------------------------------------------------------------
(* Single records read and deleted: two teams, each manager with one STAFF   *)
(* report, an activity log that grows, a reporting line that moves and a     *)
(* manager promoted to a second SUPER_ADMIN.                                 *)

MaxRecordRequests == 3

InitRecords ==
    /\ users = TwoTeams
    /\ activities = <<>>
    /\ departments = [d \in Departments |-> BlankDepartment]
    /\ reqs = [c \in Clients |-> Idle]
    /\ last = NoResponse
    /\ served = 0
    /\ checks = [u \in UserIds |-> [sinceSuccess |-> 0, sinceReset |-> 0]]
    /\ now = 1
    /\ inflightLimit = 1
    /\ budget = MaxRecordRequests

NextRecords ==
    \/ \E a \in UserIds, t \in UserIds : getUser(a, t)
    \/ \E a \in UserIds, t \in UserIds, status \in {None, "completed", "done"} :
          getActivitiesByUser(a, t, Null, status)
    \/ \E a \in {3, 5} : createDailyActivity(a, "09:00 - 10:00", "standup", None)
    \/ updateUser(1, 3, [NoBody EXCEPT !.keys = {"reportsTo"}, !.reportsTo = 4])
    \/ updateUser(1, 4, [NoBody EXCEPT !.keys = {"role"}, !.role = SUPER_ADMIN])
    \/ \E a \in UserIds, t \in UserIds : deleteUser(a, t)

SpecRecords == InitRecords /\ [][NextRecords]_vars

-----------------------------------------------------------------------------
(* Lock notifications in a larger directory: the seeded SUPER_ADMIN, five    *)
(* managers of whom any may have been made SUPER_ADMIN and one deactivated,  *)
(* and a STAFF member two failed logins away from the automatic lock.        *)

MaxNotified == 7
MaxNotifyRequests == 2

Crowd(admins, lastActive) ==
    [u \in 1..MaxNotified |->
        IF u = MaxNotified
        THEN failedLoginEdit(failedLoginEdit(
                 NewUser(u, CardOf(u), EmailOf(u), "secret", STAFF, 2, "d1", TRUE)))
        ELSE [NewUser(u, CardOf(u), EmailOf(u), "secret",
                      IF u = 1 \/ u \in admins THEN SUPER_ADMIN ELSE LINE_MANAGER,
                      Null, "d1", TRUE)
              EXCEPT !.is_active = (u # MaxNotified - 1 \/ lastActive)]]

InitNotify ==
    /\ now = 1
    /\ \E admins \in SUBSET (2..(MaxNotified - 1)), lastActive \in BOOLEAN :
          users = Crowd(admins, lastActive)
    /\ activities = <<>>
    /\ departments = [d \in Departments |-> BlankDepartment]
    /\ reqs = [c \in Clients |-> Idle]
    /\ last = NoResponse
    /\ served = 0
    /\ checks = [u \in 1..MaxNotified |-> [sinceSuccess |-> 0, sinceReset |-> 0]]
    /\ inflightLimit = MaxClients
    /\ budget = MaxNotifyRequests

NextNotify ==
    \/ \E c \in Clients : loginUser(c, CardOf(MaxNotified), "hunter2")
    \/ \E c \in Clients : failedLogin_find(c)
    \/ \E c \in Clients : failedLogin_save(c)
    \/ \E c \in Clients : failedLogin_refetch(c)
    \/ \E a \in {1, 2}, t \in {3, MaxNotified}, mail \in BOOLEAN :
          lockAccount(a, CardOf(t), None, mail)

SpecNotify == InitNotify /\ [][NextNotify]_vars

-----------------------------------------------------------------------------
(* Password resets of one account: tokens requested, verified and used by    *)
(* requests that may overlap, while the clock moves between requests.        *)

MaxResetRequests == 3

InitResets ==
    /\ users = Org
    /\ activities = <<>>
    /\ departments = [d \in Departments |-> BlankDepartment]
    /\ reqs = [c \in Clients |-> Idle]
    /\ last = NoResponse
    /\ served = 0
    /\ checks = [u \in UserIds |-> [sinceSuccess |-> 0, sinceReset |-> 0]]
    /\ now = 1
    /\ inflightLimit = MaxClients
    /\ budget = MaxResetRequests

NextResets ==
    \/ \E token \in OtpCodes : requestPasswordReset(CardOf(3), <<>>, token)
    \/ \E token \in OtpCodes : verifyResetToken(CardOf(3), token)
    \/ \E c \in Clients, token \in OtpCodes, newPassword \in {"hunter2", "secret"} :
          resetPassword_find(c, CardOf(3), token, newPassword)
    \/ \E c \in Clients : resetPassword_save(c)
    \/ (InFlight = {} /\ now < 3 * TickMinutes /\ Tick)

SpecResets == InitResets /\ [][NextResets]_vars

-----------------------------------------------------------------------------
(* Verification of one account: a STAFF member registered a moment ago, not  *)
(* yet verified, who logs in, asks for codes and sends codes, one request at *)
(* a time, while the clock moves and a SUPER_ADMIN locks and unlocks.        *)

MaxVerifyRequests == 3

InitVerification ==
    /\ \E otp \in OtpCodes :
          users = [Org EXCEPT ![3].isVerified = FALSE, ![3].otp = otp,
                              ![3].otpExpiresAt = 1 + OtpTtl]
    /\ activities = <<>>
    /\ departments = [d \in Departments |-> BlankDepartment]
    /\ reqs = [c \in Clients |-> Idle]
    /\ last = NoResponse
    /\ served = 0
    /\ checks = [u \in UserIds |-> [sinceSuccess |-> 0, sinceReset |-> 0]]
    /\ now = 1
    /\ inflightLimit = 1
    /\ budget = MaxVerifyRequests

NextVerification ==
    \/ loginSteps({CardOf(3)})
    \/ \E otp \in OtpCodes \cup {BadCode} : verifyOtp(CardOf(3), otp)
    \/ \E otp \in OtpCodes : resendOtp(CardOf(3), otp)
    \/ lockAccount(1, CardOf(3), None, TRUE)
    \/ unlockAccount(1, CardOf(3), TRUE)
    \/ (InFlight = {} /\ now < 2 * TickMinutes /\ Tick)

SpecVerification == InitVerification /\ [][NextVerification]_vars

-----------------------------------------------------------------------------
(* Properties of the lockout state machine *)

\* a 401 answer to a failed login for user u, carrying the attempts left
FailedLoginAnswer(u) ==
    /\ last.op = "loginUser" /\ last.user = u /\ last.status = 401
    /\ "attemptsRemaining" \in DOMAIN last.body

AutoLocked(u) ==
    /\ users[u].isLocked
    /\ users[u].lockedReason = AUTO_LOCK_REASON
    /\ users[u].loginAttempts = 0

\* C1 as written: counting failed credential checks since the last successful
\* check or unlock, the third locks the account with the automatic reason and
\* a counter of 0, and after the second the account is unlocked and the answer
\* says one attempt remains.
C1_SinceSuccessOrUnlock ==
    \A u \in LiveUsers(users) :
        /\ checks[u].sinceSuccess = MaxAttempts => AutoLocked(u)
        /\ (checks[u].sinceSuccess = 2 /\ FailedLoginAnswer(u)) =>
               (~users[u].isLocked /\ last.body.attemptsRemaining = 1)

\* C1 (amended): the same, counting failed credential checks since the last
\* successful check, unlock, password reset or password change: the third locks
\* the account with reason "3 consecutive failed login attempts" and counter 0;
\* after the second the account is unlocked and attemptsRemaining is 1.
C1_ThreeFailuresLock ==
    \A u \in LiveUsers(users) :
        /\ checks[u].sinceReset = MaxAttempts => AutoLocked(u)
        /\ (checks[u].sinceReset = 2 /\ FailedLoginAnswer(u)) =>
               (~users[u].isLocked /\ last.body.attemptsRemaining = 1)

\* the STAFF member failed twice, changed nothing, failed a third time: locked
C1_Witness ==
    /\ checks[3].sinceReset = MaxAttempts /\ checks[3].sinceSuccess = MaxAttempts
    /\ AutoLocked(3)
    /\ last.op = "loginUser" /\ last.status = 423

\* C2: whatever the interleaving of concurrent failed logins, none is lost:
\* once three failed credential checks have been recorded for an account with
\* no success, unlock, password reset or change in between, it is locked.
C2_NoAttemptLost ==
    \A u \in LiveUsers(users) : checks[u].sinceReset = MaxAttempts => users[u].isLocked

\* C9: a login to a locked account compares no password, answers 423 with
\* locked = true and no token, and leaves every user document, every request
\* in progress and the history of credential checks as they were.  (Stated as:
\* a step that does otherwise is not a login to a locked account.)
C9_LockedLoginStep ==
    \A c \in Clients, card \in AccountCards, pw \in Passwords :
        LET u == findByCard(users, card) IN
        (/\ u # Null /\ users[u].isLocked
         /\ ~(/\ users' = users /\ reqs' = reqs /\ checks' = checks
              /\ last'.op = "loginUser" /\ last'.user = u /\ last'.status = 423
              /\ last'.body.locked
              /\ "token" \notin DOMAIN last'.body))
            => ~loginUser(c, card, pw)

C9_LockedLoginFrame == [][C9_LockedLoginStep]_vars

\* a login answered 423 for an account an administrator had locked by hand
C9_Witness ==
    /\ last.op = "loginUser" /\ last.status = 423 /\ last.user = 3
    /\ users[3].isLocked /\ users[3].lockedReason = MANUAL_LOCK_REASON

\* the handlers that are not an unlock
OtherHandlers ==
    {"loginUser", "verifyOtp", "resendOtp", "requestPasswordReset", "verifyResetToken",
     "resetPassword", "changePassword", "updateUser", "checkinUser", "lockAccount"}

\* C8: a locked account stays locked from one state to the next unless the step
\* is an unlock of that account that passed every check of the unlock handler;
\* no login, OTP verification or resend, password-reset request, verification
\* or reset, password change, user update or check-in clears the lock.
C8_LockedStep ==
    \A u \in UserIds :
        (Live(users, u) /\ users[u].isLocked /\ Live(users', u) /\ ~users'[u].isLocked) =>
            /\ last'.op = "unlockAccount" /\ last'.user = u
            /\ \E a \in UserIds : unlockAccountGate(a, users[u].id_card) = 0

C8_LockedUntilUnlocked == [][C8_LockedStep]_vars

\* another handler answered for the STAFF account while it was locked, and it
\* is still locked
C8_Witness ==
    /\ users[3].isLocked
    /\ last.op \in OtherHandlers \ {"loginUser", "lockAccount"}
    /\ last.status \in {200, 423}


-----------------------------------------------------------------------------
(* Properties of the directory *)

\* C3: some user is an active SUPER_ADMIN.
C3_ActiveSuperAdminExists ==
    \E u \in LiveUsers(users) : users[u].role = SUPER_ADMIN /\ users[u].is_active

\* an authenticated actor a and a card that names a locked STAFF account
LockedStaffAndActor(a, card) ==
    LET t == findByCard(users, card) IN
    /\ authMiddleware(a)
    /\ t # Null /\ users[t].role = STAFF /\ users[t].isLocked

\* C4: an unlock of a locked STAFF account takes effect when the actor is a
\* SUPER_ADMIN or the user the account's reportsTo points to, and leaves the
\* account locked for every other actor.  (Stated as: a step that does
\* otherwise is not the unlock of that account by that actor.)
C4_UnlockStep ==
    \A a \in UserIds, card \in AccountCards, mail \in BOOLEAN :
        LET t == findByCard(users, card)
            entitled == users[a].role = SUPER_ADMIN \/ users[t].reportsTo = a IN
        (LockedStaffAndActor(a, card) /\ (users'[t].isLocked <=> entitled))
            => ~unlockAccount(a, card, mail)

C4_UnlockByManagerOrSuperAdmin == [][C4_UnlockStep]_vars

\* a payload that carries role, id_card or is_active = false
ForbiddenForSelf(body) ==
    \/ Has(body, "role")
    \/ Has(body, "id_card")
    \/ (Has(body, "is_active") /\ body.is_active = FALSE)

\* the step answers an update with a rejection and writes nothing
Rejected == last'.op = "updateUser" /\ last'.status \in {400, 403, 409} /\ users' = users

\* C6 as written: for an actor of any role, a self-update with such a payload
\* is rejected and changes nothing.  (Stated as: a step that is not such a
\* rejection is not such a self-update.)
C6_AnyRoleStep ==
    \A a \in UserIds, body \in UpdateBodies :
        (authMiddleware(a) /\ ForbiddenForSelf(body) /\ ~Rejected) => ~updateUser(a, a, body)

C6_SelfUpdateRejectedForAnyRole == [][C6_AnyRoleStep]_vars

\* C6 (amended): a self-update whose payload carries role, id_card or
\* is_active = false is rejected and changes nothing when the actor is a STAFF
\* member or a LINE_MANAGER; when the actor is a SUPER_ADMIN, whose updates are
\* all at the super_admin level, it is rejected when it carries is_active = false.
C6_SelfStep ==
    \A a \in UserIds, body \in UpdateBodies :
        (/\ authMiddleware(a) /\ ForbiddenForSelf(body)
         /\ \/ users[a].role # SUPER_ADMIN
            \/ (Has(body, "is_active") /\ body.is_active = FALSE)
         /\ ~Rejected) => ~updateUser(a, a, body)

C6_SelfUpdateRejected == [][C6_SelfStep]_vars

selfFields == {"email", "first_name", "last_name", "password"}

\* a STAFF member was refused a change of its own role, or a SUPER_ADMIN was
\* refused its own deactivation
C6_Witness ==
    /\ last.op = "updateUser"
    /\ \/ /\ last.status = 403
          /\ last.body.allowedFields = selfFields
          /\ "role" \in last.body.unauthorizedFields
       \/ /\ last.status = 400
          /\ last.body.message = "You cannot deactivate your own account"

\* C7: an update that is answered with anything but success leaves every stored
\* user document as it was; a STAFF self payload of a new email with
\* is_active = false is so answered.
C7_RejectedStep ==
    /\ (last'.op = "updateUser" /\ served' = served + 1 /\ last'.status # 200) => users' = users
    /\ \A a \in UserIds, body \in UpdateBodies :
          (/\ authMiddleware(a) /\ users[a].role = STAFF
           /\ body.keys = {"email", "is_active"} /\ body.is_active = FALSE
           /\ ~Rejected) => ~updateUser(a, a, body)

C7_AllOrNothing == [][C7_RejectedStep]_vars

\* a self-update carrying is_active was refused at the self level, and the
\* STAFF member's email is the one it had
C7_Witness ==
    /\ last.op = "updateUser" /\ last.status = 403
    /\ last.body.allowedFields = selfFields
    /\ last.body.unauthorizedFields = {"is_active"}
    /\ Live(users, 3) /\ users[3].email = EmailOf(3)

\* C10: every STAFF member reports to an existing LINE_MANAGER or SUPER_ADMIN.
C10_StaffReportToManagers ==
    \A u \in LiveUsers(users) :
        users[u].role = STAFF =>
            /\ users[u].reportsTo # Null
            /\ Live(users, users[u].reportsTo)
            /\ users[users[u].reportsTo].role \in {LINE_MANAGER, SUPER_ADMIN}

-----------------------------------------------------------------------------
(* Properties of the activity listing *)

ListedTo(a) ==
    /\ last.op = "getAllActivities" /\ last.status = 200 /\ last.actor = a
    /\ Live(users, a) /\ users[a].role = LINE_MANAGER

\* C5: every entry of an all-activities listing answered to a LINE_MANAGER,
\* whatever the user, date, status, region and branch filters, is owned by a
\* user whose reportsTo is that manager in the directory as it is when the
\* listing is answered; a reporting line changed after the handler derived its
\* direct reports does not let a former report's entry through.
C5_ListingOnlyDirectReports ==
    \A a \in UserIds :
        ListedTo(a) =>
            \A i \in 1..Len(last.body.data) :
                LET owner == last.body.data[i].user IN
                owner # Null /\ Live(users, owner) /\ users[owner].reportsTo = a

\* a manager is answered a listing holding an entry of a STAFF member who
\* was moved to that manager's team after the directory was set up
C5_Witness ==
    \E a \in UserIds :
        /\ ListedTo(a)
        /\ \E i \in 1..Len(last.body.data) :
              LET owner == last.body.data[i].user IN
              owner # Null /\ TwoTeams[owner].reportsTo # a

-----------------------------------------------------------------------------
(* Properties of the reporting lines *)

\* C11: every LINE_MANAGER and every SUPER_ADMIN has reportsTo = null.
C11_ManagersReportToNobody ==
    \A u \in LiveUsers(users) :
        users[u].role \in {LINE_MANAGER, SUPER_ADMIN} => users[u].reportsTo = Null

\* following reportsTo from cur for at most n edges arrives at start
RECURSIVE ReportsUpTo(_, _, _, _)
ReportsUpTo(us, start, cur, n) ==
    IF n = 0 \/ cur = Null THEN FALSE
    ELSE IF ~Live(us, cur) \/ us[cur].reportsTo = Null THEN FALSE
    ELSE us[cur].reportsTo = start \/ ReportsUpTo(us, start, us[cur].reportsTo, n - 1)

\* C12: the reportsTo relation has no cycle: no user reports to itself, and no
\* chain of reportsTo edges leads from a user back to that user.
C12_ReportsToAcyclic ==
    \A u \in LiveUsers(users) : ~ReportsUpTo(users, u, u, MaxUsers)

\* the line manager designated for department d, when that user is an active
\* LINE_MANAGER
DesignatedManager(d) ==
    LET m == departments[d].sentLineManager IN
    IF /\ m # Null /\ Live(users, m) /\ users[m].is_active /\ users[m].role = LINE_MANAGER
    THEN m ELSE Null

\* C13: an update that changes the department of a STAFF member to a
\* department with a designated, active LINE_MANAGER saves the record with
\* reportsTo equal to that manager.  (Stated as: a step that saves another
\* reportsTo is not such an update.)
C13_DepartmentStep ==
    \A a \in UserIds, t \in UserIds, body \in ReportingBodies :
        (/\ Live(users, t) /\ users[t].role = STAFF
         /\ body.keys = {"department"} /\ body.department \in Departments
         /\ body.department # users[t].department
         /\ DesignatedManager(body.department) # Null
         /\ last'.op = "updateUser" /\ last'.status = 200
         /\ users'[t].reportsTo # DesignatedManager(body.department))
            => ~updateUser(a, t, body)

C13_DesignatedManagerAssigned == [][C13_DepartmentStep]_vars

-----------------------------------------------------------------------------
(* Properties of the activity log *)

\* C14: an activity whose status is completed keeps that status in every later
\* state, whoever sends an update and however updates overlap; an update of a
\* completed activity that omits status and changes the description is applied.
C14_CompletedStep ==
    \A i \in 1..Len(activities) :
        activities[i].status = "completed" => activities'[i].status = "completed"

C14_CompletedStaysCompleted == [][C14_CompletedStep]_vars

-----------------------------------------------------------------------------
(* Properties of manual lock and unlock *)

\* C15: a locked LINE_MANAGER account is unlocked only by a SUPER_ADMIN, and a
\* locked SUPER_ADMIN account only by a SUPER_ADMIN who is another user; every
\* other unlock leaves the account locked.  (Stated as: a step that unlocks
\* such an account for another actor is not an unlock request.)
C15_UnlockStep ==
    \A a \in UserIds, card \in LockCards, mail \in BOOLEAN :
        LET t == findByCard(users, card) IN
        (/\ t # Null /\ users[t].isLocked /\ users[t].role \in {LINE_MANAGER, SUPER_ADMIN}
         /\ ~users'[t].isLocked
         /\ ~(users[a].role = SUPER_ADMIN /\ (users[t].role = SUPER_ADMIN => a # t)))
            => ~unlockAccount(a, card, mail)

C15_ManagersUnlockedBySuperAdmin == [][C15_UnlockStep]_vars

\* the actor may lock the account the card names: the account is unlocked and
\* not the actor's own, and the actor is a SUPER_ADMIN or the LINE_MANAGER a
\* STAFF target reports to
MayLock(a, card) ==
    LET t == findByCard(users, card) IN
    /\ Live(users, a) /\ t # Null
    /\ ~users[t].isLocked /\ t # a
    /\ \/ users[a].role = SUPER_ADMIN
       \/ /\ users[a].role = LINE_MANAGER /\ users[t].role = STAFF /\ users[t].reportsTo = a

\* C16: a manual lock takes effect only when the target is unlocked, is not the
\* actor, and the actor is a SUPER_ADMIN or the LINE_MANAGER a STAFF target
\* reports to; any other lock request is refused and leaves every account, its
\* lock state and lock metadata included, as it was.  (Stated as: a step that
\* does otherwise is not such a lock request.)
C16_LockStep ==
    \A a \in UserIds, card \in LockCards, reason \in LockReasons, mail \in BOOLEAN :
        (/\ ~MayLock(a, card)
         /\ ~(/\ users' = users
              /\ last'.op = "lockAccount" /\ last'.status \in {400, 401, 403, 404}))
            => ~lockAccount(a, card, reason, mail)

C16_LockOnlyWhenAllowed == [][C16_LockStep]_vars

\* a SUPER_ADMIN's request to lock its own account was refused with 400 while
\* another account is locked by hand
C16_Witness ==
    /\ last.op = "lockAccount" /\ last.status = 400
    /\ last.actor = last.user /\ users[last.actor].role = SUPER_ADMIN
    /\ ~users[last.actor].isLocked
    /\ \E u \in LiveUsers(users) : users[u].isLocked /\ users[u].lockedAt # Null

\* C17: an unlock request for an account that is not locked is refused and
\* changes nothing; an unlock that takes effect leaves the account with
\* isLocked false, lockedAt and lockedReason cleared, the failed-login counter 0
\* and lastFailedLoginAt cleared.
C17_UnlockStep ==
    /\ \A a \in UserIds, card \in LockCards, mail \in BOOLEAN :
          LET t == findByCard(users, card) IN
          (/\ t # Null /\ ~users[t].isLocked
           /\ ~(/\ users' = users
                /\ last'.op = "unlockAccount" /\ last'.status \in {400, 401, 403}))
              => ~unlockAccount(a, card, mail)
    /\ (last'.op = "unlockAccount" /\ served' = served + 1 /\ users' # users) =>
          LET t == last'.user IN
          /\ t # Null /\ users[t].isLocked
          /\ users'[t] = [users[t] EXCEPT !.isLocked = FALSE, !.lockedAt = Null,
                                          !.lockedReason = None, !.loginAttempts = 0,
                                          !.lastFailedLoginAt = Null]

C17_UnlockClearsLock == [][C17_UnlockStep]_vars

\* the account that failed logins had locked was unlocked: its lock fields and
\* the date of its last failed login are cleared
C17_Witness ==
    /\ last.op = "unlockAccount" /\ last.status = 200 /\ last.user = 4
    /\ ~users[4].isLocked /\ users[4].lockedAt = Null /\ users[4].lockedReason = None
    /\ users[4].loginAttempts = 0 /\ users[4].lastFailedLoginAt = Null



-----------------------------------------------------------------------------
(* Properties of reading one user *)

\* canView(actor, target): the actor is the target, a SUPER_ADMIN, or the
\* LINE_MANAGER the target currently reports to
MayView(a, t) ==
    \/ a = t
    \/ users[a].role = SUPER_ADMIN
    \/ users[a].role = LINE_MANAGER /\ users[t].reportsTo = a

\* C18: reading a single user record by id succeeds only if the actor is the
\* target, a SUPER_ADMIN, or a LINE_MANAGER the target reports to; a
\* LINE_MANAGER asking for a user who does not report to them is denied.
C18_ReadStep ==
    \A a \in UserIds, t \in UserIds :
        (/\ Live(users, a) /\ Live(users, t)
         /\ ~MayView(a, t)
         /\ last'.status = 200)
        => ~getUser(a, t)
C18_ReadOnlyWhenMayView == [][C18_ReadStep]_vars

\* C19: listing the activity log of a specific user is authorized exactly
\* when the actor is that user (whatever the role), a SUPER_ADMIN, or the
\* LINE_MANAGER the target currently reports to; a STAFF actor asking for
\* another user's log is always rejected.
C19_LogStep ==
    \A a \in UserIds, t \in UserIds :
        (/\ authMiddleware(a) /\ Live(users, t)
         /\ (last'.status = 200) # MayView(a, t))
        => ~getActivitiesByUser(a, t, Null, None)
C19_LogAuthorizedExactlyWhenMayView == [][C19_LogStep]_vars


-----------------------------------------------------------------------------
(* Properties of deleting a user *)

\* canDelete(actor, target)
MayDelete(a, t) == users[a].role = SUPER_ADMIN /\ a # t /\ users[t].role # SUPER_ADMIN

\* C20: a user record is hard-deleted only when the actor is a SUPER_ADMIN,
\* the actor is not the target and the target is not a SUPER_ADMIN; every
\* other delete request fails and removes nothing, so no SUPER_ADMIN record
\* is deleted and no user deletes itself.
C20_DeleteStep ==
    /\ \A a \in UserIds, t \in UserIds :
          (/\ ~MayDelete(a, t)
           /\ ~(last'.status # 200 /\ users' = users))
          => ~deleteUser(a, t)
    /\ \A u \in UserIds :
          (Live(users, u) /\ ~Live(users', u))
          => (users[u].role # SUPER_ADMIN /\ last'.op = "deleteUser" /\ last'.status = 200)
-----------------------------------------------------------------------------
(* Properties of departments *)

\* department d is on record, active, and the department of an active user
InUse(d) ==
    /\ departments[d].st = "live" /\ departments[d].isActive
    /\ \E u \in LiveUsers(users) : users[u].department = d /\ users[u].is_active

\* C21: a department that an active user references is neither deactivated
\* nor deleted by any operation: every deactivation or deletion of a
\* department with active users is rejected.
C21_DepartmentStep ==
    \A d \in Departments :
        InUse(d) => (departments'[d].st = "live" /\ departments'[d].isActive)
C21_DepartmentInUseStays == [][C21_DepartmentStep]_vars


-----------------------------------------------------------------------------
(* Properties of the lock notification *)

\* the address of the manager a locked STAFF member reports to
ManagerAddress(us, t) ==
    IF us[t].role = STAFF /\ us[t].reportsTo # Null /\ Live(us, us[t].reportsTo)
    THEN {us[us[t].reportsTo].email} ELSE {}
AllAdminAddresses(us) ==
    {us[u].email : u \in {v \in LiveUsers(us) : us[v].role = SUPER_ADMIN /\ us[v].is_active}}
NoAddressTwice(list) == \A i, j \in 1..Len(list) : list[i] = list[j] => i = j
Addresses(list) == {list[i] : i \in 1..Len(list)}
\* this step answers a request that locked an account and computed recipients
LockNotified == served' # served /\ "notified" \in DOMAIN last'.body

\* C22: whenever an account is locked (automatically or manually) the
\* recipient addresses are the manager's address if the target is STAFF,
\* together with the address of every active SUPER_ADMIN, however many there
\* are, and no address is repeated.
C22_AllAdminsStep ==
    LockNotified =>
        /\ Addresses(last'.body.notified) =
              ManagerAddress(users', last'.user) \cup AllAdminAddresses(users')
        /\ NoAddressTwice(last'.body.notified)
C22_AllAdminsNotified == [][C22_AllAdminsStep]_vars

\* C22 as the code has it: the manager's address if the target is STAFF,
\* together with the addresses of the first NotifyLimit active SUPER_ADMINs of
\* the store, and no address is repeated.
C22_FirstAdminsStep ==
    LockNotified =>
        /\ Addresses(last'.body.notified) =
              ManagerAddress(users', last'.user)
              \cup {users'[u].email : u \in superAdmins(users')}
        /\ NoAddressTwice(last'.body.notified)
C22_FirstAdminsNotified == [][C22_FirstAdminsStep]_vars

\* a STAFF member has been locked while six SUPER_ADMINs were active, one of
\* them the member's manager
C22_Witness ==
    /\ "notified" \in DOMAIN last.body
    /\ last.user = MaxNotified /\ users[MaxNotified].isLocked
    /\ users[users[MaxNotified].reportsTo].role = SUPER_ADMIN
    /\ Cardinality(AllAdminAddresses(users)) = NotifyLimit + 1
    /\ Len(last.body.notified) = NotifyLimit


-----------------------------------------------------------------------------
(* Properties of the password reset *)

\* the token most recently issued for u and not yet used is the stored one;
\* it was issued ResetTtl minutes before resetPasswordExpiresAt
UsableToken(u, token) ==
    /\ users[u].resetPasswordToken # <<>>
    /\ users[u].resetPasswordToken = token
    /\ users[u].resetPasswordExpiresAt # Null
    /\ now <= users[u].resetPasswordExpiresAt

\* C23: a password reset succeeds only with the token most recently issued for
\* the user, not yet consumed by a successful reset and issued no more than 15
\* minutes ago; after one successful reset the same token is rejected by
\* verify-token and by reset, and a new token invalidates the previous one.
C23_ResetStep ==
    /\ \A c \in Clients :
          (/\ reqs[c].pc = "resetPassword_save"
           /\ ~UsableToken(reqs[c].user, reqs[c].doc.resetPasswordToken)
           /\ last'.status = 200)
          => ~resetPassword_save(c)
    /\ \A token \in OtpCodes :
          (~UsableToken(3, token) /\ last'.status = 200) => ~verifyResetToken(CardOf(3), token)
    /\ \A u \in UserIds :
          users'[u].resetPasswordToken # users[u].resetPasswordToken
          => \/ last'.op = "requestPasswordReset" /\ last'.status = 200
                /\ users'[u].resetPasswordExpiresAt = now + ResetTtl
             \/ last'.op = "resetPassword" /\ last'.status = 200
                /\ users'[u].resetPasswordToken = <<>>
C23_ResetTokenSingleUse == [][C23_ResetStep]_vars


-----------------------------------------------------------------------------
(* Properties of the ownership of activities *)

\* C24: an activity is created with the actor as owner, its owner never
\* changes, and it is updated or deleted only by requests of its owner: an
\* update or delete by anyone else, a SUPER_ADMIN or the owner's manager
\* included, fails and leaves the entry unchanged.
C24_OwnerStep ==
    /\ Len(activities') >= Len(activities)
    /\ Len(activities') > Len(activities) =>
          /\ last'.op = "createDailyActivity"
          /\ activities'[Len(activities')].user = last'.actor
    /\ \A id \in 1..Len(activities) :
          activities'[id] # activities[id] =>
              /\ LiveActivity(id)
              /\ last'.actor = activities[id].user /\ last'.status = 200
              /\ \/ last'.op = "updateDailyActivity" /\ activities'[id].user = activities[id].user
                 \/ last'.op = "deleteDailyActivity" /\ activities'[id] = GoneActivity(activities[id])
    /\ \A a \in {1, 2, 3}, id \in {1, 2} :
          (/\ LiveActivity(id) /\ activities[id].user # a
           /\ ~(last'.status \in {401, 404} /\ activities' = activities))
          => ~deleteDailyActivity(a, id)
    /\ \A c \in Clients :
          (/\ reqs[c].pc = "idle" /\ reqs'[c].pc = "updateDailyActivity_save")
          => reqs'[c].rows[1].user = reqs'[c].user
C24_OnlyTheOwnerWrites == [][C24_OwnerStep]_vars

\* the SUPER_ADMIN has just been refused the deletion of an entry that its
\* owner, a STAFF member, created and then edited
C24_Witness ==
    /\ last.op = "deleteDailyActivity" /\ last.actor = 1 /\ last.status = 404
    /\ LiveActivity(1)
    /\ activities[1].user = 3 /\ activities[1].description = "retro"


-----------------------------------------------------------------------------
(* Properties of the successful login *)

\* C25: a successful credential check on an unlocked account sets the
\* failed-login counter to 0 and clears lastFailedLoginAt whatever the count
\* was before (0, 1 or 2), also when the account is unverified and the login
\* ends with an OTP challenge instead of a token.
C25_LoginStep ==
    \A c \in Clients :
        (/\ reqs[c].pc \in {"checkin", "sendOtp"} /\ reqs'[c].pc = "idle"
         /\ last'.op = "loginUser" /\ last'.status \in {200, 403})
        => /\ users'[reqs[c].user].loginAttempts = 0
           /\ users'[reqs[c].user].lastFailedLoginAt = Null
C25_SuccessResetsCounter == [][C25_LoginStep]_vars

\* an unverified account that had two failed logins is about to get its OTP:
\* the credential check succeeded and the check-in was saved from the
\* document loaded with the count of 2
C25_Witness ==
    \E c \in Clients :
        /\ reqs[c].pc = "sendOtp"
        /\ reqs[c].doc.loginAttempts = 2
        /\ ~users[reqs[c].user].isVerified
        /\ users[reqs[c].user].loginAttempts = 0
        /\ users[reqs[c].user].lastCheckinAt = now


-----------------------------------------------------------------------------
(* Properties of the activity log of one user *)

\* C26: every entry returned by the listing of target user T's activities is
\* owned by T: an authorized caller never receives entries of another user.
C26_LogStep ==
    (/\ served' # served
     /\ last'.op = "getActivitiesByUser" /\ last'.status = 200)
    => \A i \in 1..Len(last'.body.data) :
           activities'[last'.body.data[i].id].user = last'.user
C26_LogHoldsOnlyTargetsEntries == [][C26_LogStep]_vars


-----------------------------------------------------------------------------
(* Properties of the stored failed-login counter *)

\* C27: under every interleaving of logins, manual lock, unlock, password
\* reset and password change, each user's stored failed-login counter is 0, 1
\* or 2, and it is 0 whenever isLocked is true.
C27_CounterInRangeAndZeroWhenLocked ==
    \A u \in LiveUsers(users) :
        /\ users[u].loginAttempts \in 0..(MaxAttempts - 1)
        /\ users[u].isLocked => users[u].loginAttempts = 0


-----------------------------------------------------------------------------
(* Properties of the update levels *)

\* C28: for an actor of every role, an update of the actor's own record whose
\* payload keys are among email, first_name, last_name and password is
\* authorized; in particular a LINE_MANAGER can update their own email and
\* password.  (Stated as: a step that answers 403 is not such a self-update.)
C28_SelfStep ==
    \A a \in UserIds, body \in UpdateBodies :
        (/\ authMiddleware(a)
         /\ body.keys # {} /\ body.keys \subseteq selfFields
         /\ last'.status = 403)
        => ~updateUser(a, a, body)
C28_SelfUpdateAuthorized == [][C28_SelfStep]_vars

\* the actor is a SUPER_ADMIN, the target itself, or the LINE_MANAGER the target
\* reports to when the request arrives
MayUpdate(a, t) ==
    \/ users[a].role = SUPER_ADMIN
    \/ a = t
    \/ users[a].role = LINE_MANAGER /\ Live(users, t) /\ users[t].reportsTo = a

\* C29: a user update changes a stored record only if the actor is a
\* SUPER_ADMIN, the actor is the target, or the actor is a LINE_MANAGER and the
\* target's reportsTo equals the actor at request time.  (Stated as: a step
\* that changes the users collection is not an update by any other actor.)
C29_UpdateStep ==
    \A a \in {1, 2, 3}, t \in {1, 2, 3}, body \in UpdateBodies :
        (~MayUpdate(a, t) /\ users' # users) => ~updateUser(a, t, body)
C29_UpdateOnlyByAuthorizedActor == [][C29_UpdateStep]_vars

\* a LINE_MANAGER was refused the update of a user who does not report to them,
\* after user 3 had been moved from manager 2 to manager 4
C29_Witness ==
    /\ last.op = "updateUser" /\ last.status = 403
    /\ last.body.message = "Insufficient permissions"
    /\ Live(users, 3) /\ users[3].role = STAFF /\ users[3].reportsTo = 4
    /\ users[2].role = LINE_MANAGER

\* the fields a manager-level update must leave alone
managerProtected(u) == <<u.role, u.isAdmin, u.id_card, u.password>>
\* the update of t by a was answered 403 and stored nothing
Refused403 == last'.status = 403 /\ users' = users

\* the property of C30 for a set of payload keys whose presence alone must get
\* a manager-level update refused (presence) and whether a password key with
\* an empty value counts as a password (emptyCounts)
ManagerStep(presence, emptyCounts) ==
    \A a \in {1, 2, 3}, t \in {1, 2, 3}, body \in UpdateBodies :
        LET level == canUpdateUser(a, t)
            password == Has(body, "password") /\ (emptyCounts \/ body.password # None)
            carries == body.keys \cap presence # {} \/ password IN
        (\/ /\ authMiddleware(a) /\ level = "manager"
            /\ \/ carries /\ ~Refused403
               \/ managerProtected(users'[t]) # managerProtected(users[t])
         \/ /\ level # "super_admin"
            /\ <<users'[t].role, users'[t].isAdmin, users'[t].id_card>>
                   # <<users[t].role, users[t].isAdmin, users[t].id_card>>
         \/ /\ level \notin {"super_admin", "self"}
            /\ users'[t].password # users[t].password)
        => ~updateUser(a, t, body)

\* C30: no update by a LINE_MANAGER on a direct report changes the target's
\* role, isAdmin flag, id_card or password; a manager-level payload that
\* contains role, id_card, reportsTo or password is rejected; and updateUser
\* changes these fields only at super_admin level (password also at self level).
C30_ManagerPayloadStep == ManagerStep({"role", "id_card", "reportsTo"}, TRUE)
C30_ManagerPasswordStep == ManagerStep({"role", "id_card", "reportsTo"}, FALSE)
-----------------------------------------------------------------------------
(* Properties of the reporting line written by an update *)

\* m is a record that exists, is active and has a managing role
ActiveManager(us, m) ==
    Live(us, m) /\ us[m].is_active /\ us[m].role \in {LINE_MANAGER, SUPER_ADMIN}

\* C31: after a successful update whose payload sets reportsTo to a non-empty
\* value, the stored reportsTo references a user that exists, is active and
\* has role LINE_MANAGER or SUPER_ADMIN, and it references a SUPER_ADMIN only
\* if the actor is a SUPER_ADMIN.  (Stated as: a step answered 200 that leaves
\* another kind of reference is not such an update.)
C31_ReportsToStep ==
    \A a \in {1, 2, 3}, t \in {1, 2, 3}, body \in UpdateBodies :
        (/\ Has(body, "reportsTo") /\ body.reportsTo # Null
         /\ last'.status = 200
         /\ \/ ~ActiveManager(users', users'[t].reportsTo)
            \/ /\ users'[users'[t].reportsTo].role = SUPER_ADMIN
               /\ users[a].role # SUPER_ADMIN)
        => ~updateUser(a, t, body)
C31_ReportsToIsActiveManager == [][C31_ReportsToStep]_vars

\* the active LINE_MANAGERs whose own department is d
ActiveLineManagersOf(d) ==
    {u \in LiveUsers(users) :
        users[u].department = d /\ users[u].role = LINE_MANAGER /\ users[u].is_active}

\* the manager stored on department d, if it is an active managing account
StoredLineManager(d) ==
    LET m == DepartmentLineManager(d) IN
    IF m # Null /\ ActiveManager(users, m) THEN m ELSE Null

\* the property of C32, with the manager a department designates given by
\* designated(d) (Null when it designates none)
OverrideStep(designated(_)) ==
    \A a \in {1, 2}, t \in {2, 3, 4}, body \in ReportingBodies :
        LET d == body.department
            saved == users'[t].reportsTo IN
        (/\ Live(users, t) /\ users[t].role = STAFF
         /\ body.keys = {"department", "reportsTo"} /\ body.reportsTo # Null
         /\ d \in Departments /\ d # users[t].department
         /\ last'.status = 200
         /\ ~ IF designated(d) # Null THEN saved = designated(d)
              ELSE IF ActiveLineManagersOf(d) # {} THEN saved \in ActiveLineManagersOf(d)
              ELSE saved = body.reportsTo)
        => ~updateUser(a, t, body)

\* C32: when one update on a STAFF target carries both a department change and
\* an explicit valid reportsTo, the saved reportsTo is the manager auto-assigned
\* for the new department (its designated line manager, else an active
\* LINE_MANAGER of that department), and the explicit one only when there is
\* no manager to auto-assign.
C32_OverrideStep == OverrideStep(StoredLineManager)
-----------------------------------------------------------------------------
(* Properties of a completed activity *)

\* C33: once a DailyActivity has status completed, a later update changes none
\* of its fields.  (Stated as: a step that changes an entry which was completed
\* when the handler loaded it, and still is, is not the save of an update.)
C33_CompletedStep ==
    \A c \in Clients :
        (/\ reqs[c].pc = "updateDailyActivity_save"
         /\ reqs[c].rows[1].status = "completed"
         /\ LiveActivity(reqs[c].rows[1].id)
         /\ activities[reqs[c].rows[1].id].status = "completed"
         /\ activities'[reqs[c].rows[1].id] # activities[reqs[c].rows[1].id])
        => ~updateDailyActivity_save(c)
C33_CompletedIsFrozen == [][C33_CompletedStep]_vars

-----------------------------------------------------------------------------
(* Properties of the department status *)

\* C34: a department's isActive flag goes from true to false only through a
\* request made by a SUPER_ADMIN; no toggle-status request by a LINE_MANAGER,
\* whatever its body, deactivates a department.
C34_DeactivateStep ==
    \A d \in Departments :
        (departments[d].isActive /\ ~departments'[d].isActive)
        => /\ last'.actor \in LiveUsers(users)
           /\ users[last'.actor].role = SUPER_ADMIN
C34_OnlySuperAdminDeactivates == [][C34_DeactivateStep]_vars

-----------------------------------------------------------------------------
(* Properties of verification *)

\* the answer carries an authentication token
TokenIssued(r) == r.op = "loginUser" /\ "token" \in DOMAIN r.body

\* C35 (token): a login step that answers with a token is the last step of a
\* login whose account is unlocked and verified and whose password matches.
C35_TokenStep ==
    \A c \in Clients :
        (/\ reqs[c].pc # "idle" /\ reqs'[c].pc = "idle" /\ TokenIssued(last')
         /\ ~ /\ Live(users, reqs[c].user)
              /\ ~users[reqs[c].user].isLocked
              /\ users[reqs[c].user].isVerified
              /\ Compare(reqs[c].password, users[reqs[c].user].password))
        => ~loginSteps({CardOf(3)})

\* C35 (challenge): a successful credential check on an unverified account
\* ends without a token and with a fresh OTP stored.
C35_ChallengeStep ==
    \A c \in Clients :
        (/\ reqs[c].pc = "sendOtp" /\ Live(users, reqs[c].user)
         /\ ~ /\ ~TokenIssued(last') /\ last'.status = 403
              /\ users'[reqs[c].user].otp \in OtpCodes
              /\ users'[reqs[c].user].otpExpiresAt = now + OtpTtl
              /\ ~users'[reqs[c].user].isVerified)
        => ~loginUser_sendOtp(c)

\* C35 (verification): isVerified becomes true only in a verifyOtp answered 200
\* while the stored OTP is set and unexpired, and that OTP is cleared; no
\* verifyOtp that supplies another code, or a code past its expiry, changes it.
C35_VerifyStep ==
    /\ \A u \in UserIds :
          (Live(users, u) /\ ~users[u].isVerified /\ users'[u].isVerified)
          => /\ last'.op = "verifyOtp" /\ last'.status = 200 /\ last'.user = u
             /\ users[u].otp \in OtpCodes /\ users[u].otpExpiresAt >= now
             /\ users'[u].otp = <<>> /\ users'[u].otpExpiresAt = Null
    /\ \A otp \in OtpCodes \cup {BadCode} :
          (/\ users[3].otp # otp \/ users[3].otpExpiresAt < now
           /\ users' # users)
          => ~verifyOtp(CardOf(3), otp)

\* C35: login returns a token only when the account is unlocked, the password
\* matches and isVerified is true; a successful credential check on an
\* unverified account issues no token and stores a fresh OTP; isVerified
\* becomes true only through an OTP verification that supplies the stored,
\* unexpired OTP, which is then cleared.
C35_TokenOnlyForVerified ==
    [][C35_TokenStep /\ C35_ChallengeStep /\ C35_VerifyStep]_vars

\* the account was verified with its stored code, and a later login got a token
C35_Witness ==
    /\ TokenIssued(last) /\ last.status = 200 /\ last.user = 3
    /\ users[3].isVerified /\ users[3].otp = <<>> /\ ~users[3].isLocked

-----------------------------------------------------------------------------
(* Properties of a locked account *)

\* the handlers that stop at the locked gate
GatedOps == {"verifyOtp", "resendOtp", "requestPasswordReset", "verifyResetToken",
             "resetPassword", "changePassword"}
\* what they must leave alone
gatedFields(u) ==
    <<u.isVerified, u.otp, u.otpExpiresAt, u.resetPasswordToken, u.resetPasswordExpiresAt,
      u.password>>

\* C36: while an account is locked, every OTP verify, OTP resend, password-reset
\* request, reset-token verification, password reset and password change for
\* that account is rejected and leaves its isVerified flag, OTP, reset token
\* and password unchanged.
C36_LockedStep ==
    \A u \in UserIds :
        (/\ Live(users, u) /\ users[u].isLocked
         /\ served' # served /\ last'.op \in GatedOps /\ last'.user = u)
        => /\ last'.status >= 400
           /\ gatedFields(users'[u]) = gatedFields(users[u])
C36_LockedAccountIsFrozen == [][C36_LockedStep]_vars

\* a reset with the token issued before the lock was refused with 423, and the
\* token and the password are still the stored ones
C36_Witness ==
    /\ last.op = "resetPassword" /\ last.status = 423 /\ last.user = 3
    /\ users[3].isLocked /\ users[3].resetPasswordToken = Code("1")
    /\ users[3].password = Hash("secret")

-----------------------------------------------------------------------------
(* Properties of the listings *)

\* the users actor a may be shown: for a LINE_MANAGER those whose reportsTo is
\* a, for a SUPER_ADMIN all; narrowed by the region and branch that are given
Visible(a, region, branch) ==
    {u \in UserIds :
        /\ Live(users, u)
        /\ users[a].role = LINE_MANAGER => users[u].reportsTo = a
        /\ region = None \/ users[u].region = region
        /\ branch = None \/ users[u].branch = branch}

\* C37: the user listing and the users-by-location listing return, for a
\* LINE_MANAGER, exactly the users whose reportsTo is the actor, narrowed by
\* the region/branch filter, and for a SUPER_ADMIN all users matching the
\* filter.  (Stated as: a step that answers an admin with another set of
\* users is not one of the two listings.)
C37_ListStep ==
    \A a \in {1, 2, 3, 4} :
        /\ (/\ authMiddleware(a) /\ users[a].role \in adminRoles
            /\ last'.op = "getUsers"
            /\ ~(last'.status = 200 /\ last'.body.data = Visible(a, None, None)))
           => ~getUsers(a)
        /\ \A region \in {None, "Lagos", "Delta"}, branch \in {None, "HQ", "Warri"} :
              (/\ authMiddleware(a) /\ users[a].role \in adminRoles
               /\ region # None \/ branch # None
               /\ last'.op = "getUsersByLocation"
               /\ last'.body.data # Visible(a, region, branch))
              => ~getUsersByLocation(a, region, branch)
C37_ListingsShowOwnReports == [][C37_ListStep]_vars

\* LINE_MANAGER 2 asked for a location and was shown the one report there,
\* KE003, and none of the other users of that location
C37_Witness ==
    /\ last.op = "getUsersByLocation" /\ last.status = 200 /\ last.actor = 2
    /\ last.body.data = {3} /\ users[3].reportsTo = 2
    /\ \E u \in LiveUsers(users) \ {3} :
          users[u].region = users[3].region /\ users[u].branch = users[3].branch

\* the directory us with every account unlocked that is not a STAFF member
\* reporting to a
OthersUnlocked(us, a) ==
    [u \in DOMAIN us |->
        IF us[u].role = STAFF /\ us[u].reportsTo = a THEN us[u]
        ELSE [us[u] EXCEPT !.isLocked = FALSE, !.lockedAt = Null, !.lockedReason = None]]

\* C40: the locked-accounts response given to a LINE_MANAGER depends only on
\* the locked STAFF users who report to that manager: it is the response the
\* manager would get in the state that agrees on those reports and has no
\* other account locked.  (Stated as: a step whose answer to a LINE_MANAGER
\* differs from that response is not getLockedAccounts.)
C40_LockedListStep ==
    \A a \in {1, 2, 3, 4} :
        (/\ authMiddleware(a) /\ users[a].role = LINE_MANAGER
         /\ last'.op = "getLockedAccounts"
         /\ ~ /\ last'.status = 200
              /\ last'.body.data = lockedAccountsData(OthersUnlocked(users, a), a))
        => ~getLockedAccounts(a)
C40_ManagerSeesOnlyOwnReportsLocks == [][C40_LockedListStep]_vars

-----------------------------------------------------------------------------
(* Properties of the admin flag *)

\* C38: in every state reachable by register and update operations (updates
\* whose payload sets isAdmin included), each user's isAdmin flag is true
\* exactly when the user's role is SUPER_ADMIN or LINE_MANAGER.
C38_IsAdminFollowsRole ==
    \A u \in LiveUsers(users) : users[u].isAdmin <=> users[u].role \in adminRoles

\* the STAFF member was promoted by an update and the SUPER_ADMIN demoted, and
\* the flags followed
C38_Witness ==
    /\ last.op = "updateUser" /\ last.status = 200
    /\ Live(users, 3) /\ users[3].role = LINE_MANAGER /\ users[3].isAdmin
    /\ Live(users, 1) /\ users[1].role = STAFF /\ ~users[1].isAdmin

-----------------------------------------------------------------------------
(* Properties of failed lock and unlock requests *)

lockFields(u) == <<u.isLocked, u.lockedAt, u.lockedReason, u.loginAttempts>>

\* C39: whenever a manual lock or an unlock request returns a failure response
\* (a failure of the notification step included), the target's isLocked,
\* lockedAt, lockedReason and failed-login counter are as before the request.
C39_FailureStep ==
    \A t \in UserIds :
        (/\ Live(users, t) /\ served' # served
         /\ last'.op \in {"lockAccount", "unlockAccount"}
         /\ last'.user = t /\ last'.status >= 400)
        => lockFields(users'[t]) = lockFields(users[t])
C39_FailureChangesNothing == [][C39_FailureStep]_vars

=============================================================================
